---------------------------- MODULE Spec2Model ----------------------------
(***************************************************************************)
(* A model of the design-research pipeline: query expansion, multi-source  *)
(* search, deduplication and ranking, parallel content extraction, LLM     *)
(* synthesis, JSON coercion, schema validation and image back-fill.        *)
(*                                                                         *)
(* Text values are TLA+ strings; where the code looks inside a string      *)
(* (split, endswith, find, strip) the model works on its characters, which *)
(* StrChars gives for every string the model uses, or on a sequence of     *)
(* one-character strings directly (the LLM's raw text).                    *)
(* Python's None is the string None; floats with one decimal are integers  *)
(* scaled by ten (3.0 is 30, 2.5 is 25).                                   *)
(***************************************************************************)
EXTENDS Integers, Sequences, FiniteSets, TLC

None == "None"

(***************************************************************************)
(* Strings and their characters                                            *)
(***************************************************************************)
StrChars ==
    ("nngroup.com" :> <<"n", "n", "g", "r", "o", "u", "p", ".", "c", "o", "m">>)
    @@ ("alistapart.com" :> <<"a", "l", "i", "s", "t", "a", "p", "a", "r", "t", ".", "c", "o", "m">>)
    @@ ("smashingmagazine.com" :> <<"s", "m", "a", "s", "h", "i", "n", "g", "m", "a", "g", "a", "z", "i", "n", "e", ".", "c", "o", "m">>)
    @@ ("web.dev" :> <<"w", "e", "b", ".", "d", "e", "v">>)
    @@ ("developer.mozilla.org" :> <<"d", "e", "v", "e", "l", "o", "p", "e", "r", ".", "m", "o", "z", "i", "l", "l", "a", ".", "o", "r", "g">>)
    @@ ("w3.org" :> <<"w", "3", ".", "o", "r", "g">>)
    @@ ("lawsofux.com" :> <<"l", "a", "w", "s", "o", "f", "u", "x", ".", "c", "o", "m">>)
    @@ ("baymard.com" :> <<"b", "a", "y", "m", "a", "r", "d", ".", "c", "o", "m">>)
    @@ ("https://www.nngroup.com/a" :> <<"h", "t", "t", "p", "s", ":", "/", "/", "w", "w", "w", ".", "n", "n", "g", "r", "o", "u", "p", ".", "c", "o", "m", "/", "a">>)
    @@ ("https://baymard.com/b" :> <<"h", "t", "t", "p", "s", ":", "/", "/", "b", "a", "y", "m", "a", "r", "d", ".", "c", "o", "m", "/", "b">>)
    @@ ("https://example.com/c" :> <<"h", "t", "t", "p", "s", ":", "/", "/", "e", "x", "a", "m", "p", "l", "e", ".", "c", "o", "m", "/", "c">>)
    @@ ("https://alistapart.com/d" :> <<"h", "t", "t", "p", "s", ":", "/", "/", "a", "l", "i", "s", "t", "a", "p", "a", "r", "t", ".", "c", "o", "m", "/", "d">>)
    @@ ("https://W3.org/e" :> <<"h", "t", "t", "p", "s", ":", "/", "/", "W", "3", ".", "o", "r", "g", "/", "e">>)
    @@ ("https://web.dev/f" :> <<"h", "t", "t", "p", "s", ":", "/", "/", "w", "e", "b", ".", "d", "e", "v", "/", "f">>)
    @@ ("https://lawsofux.com/g" :> <<"h", "t", "t", "p", "s", ":", "/", "/", "l", "a", "w", "s", "o", "f", "u", "x", ".", "c", "o", "m", "/", "g">>)
    @@ ("https://blog.example.org/h" :> <<"h", "t", "t", "p", "s", ":", "/", "/", "b", "l", "o", "g", ".", "e", "x", "a", "m", "p", "l", "e", ".", "o", "r", "g", "/", "h">>)
    @@ ("https://smashingmagazine.com/i" :> <<"h", "t", "t", "p", "s", ":", "/", "/", "s", "m", "a", "s", "h", "i", "n", "g", "m", "a", "g", "a", "z", "i", "n", "e", ".", "c", "o", "m", "/", "i">>)
    @@ ("https://developer.mozilla.org/j" :> <<"h", "t", "t", "p", "s", ":", "/", "/", "d", "e", "v", "e", "l", "o", "p", "e", "r", ".", "m", "o", "z", "i", "l", "l", "a", ".", "o", "r", "g", "/", "j">>)
    @@ ("" :> <<>>)
    @@ (".jpg" :> <<".", "j", "p", "g">>)
    @@ (".jpeg" :> <<".", "j", "p", "e", "g">>)
    @@ (".png" :> <<".", "p", "n", "g">>)
    @@ (".webp" :> <<".", "w", "e", "b", "p">>)
    @@ ("logo" :> <<"l", "o", "g", "o">>)
    @@ ("favicon" :> <<"f", "a", "v", "i", "c", "o", "n">>)
    @@ ("sprite" :> <<"s", "p", "r", "i", "t", "e">>)
    @@ ("icon" :> <<"i", "c", "o", "n">>)
    @@ ("avatar" :> <<"a", "v", "a", "t", "a", "r">>)
    @@ ("badge" :> <<"b", "a", "d", "g", "e">>)
    @@ ("masthead" :> <<"m", "a", "s", "t", "h", "e", "a", "d">>)
    @@ ("placeholder" :> <<"p", "l", "a", "c", "e", "h", "o", "l", "d", "e", "r">>)
    @@ ("/img/hero.jpg" :> <<"/", "i", "m", "g", "/", "h", "e", "r", "o", ".", "j", "p", "g">>)
    @@ ("https://www.nngroup.com/img/hero.jpg" :> <<"h", "t", "t", "p", "s", ":", "/", "/", "w", "w", "w", ".", "n", "n", "g", "r", "o", "u", "p", ".", "c", "o", "m", "/", "i", "m", "g", "/", "h", "e", "r", "o", ".", "j", "p", "g">>)
    @@ ("https://x.com/hero.jpg" :> <<"h", "t", "t", "p", "s", ":", "/", "/", "x", ".", "c", "o", "m", "/", "h", "e", "r", "o", ".", "j", "p", "g">>)
    @@ ("https://x.com/logo.png" :> <<"h", "t", "t", "p", "s", ":", "/", "/", "x", ".", "c", "o", "m", "/", "l", "o", "g", "o", ".", "p", "n", "g">>)
    @@ ("https://x.com/big.png" :> <<"h", "t", "t", "p", "s", ":", "/", "/", "x", ".", "c", "o", "m", "/", "b", "i", "g", ".", "p", "n", "g">>)
    @@ ("https://x.com/small.png" :> <<"h", "t", "t", "p", "s", ":", "/", "/", "x", ".", "c", "o", "m", "/", "s", "m", "a", "l", "l", ".", "p", "n", "g">>)
    @@ ("https://cdn.example.com/photo.webp" :> <<"h", "t", "t", "p", "s", ":", "/", "/", "c", "d", "n", ".", "e", "x", "a", "m", "p", "l", "e", ".", "c", "o", "m", "/", "p", "h", "o", "t", "o", ".", "w", "e", "b", "p">>)
    @@ ("https://x.com/anim.gif" :> <<"h", "t", "t", "p", "s", ":", "/", "/", "x", ".", "c", "o", "m", "/", "a", "n", "i", "m", ".", "g", "i", "f">>)
    @@ ("https://developer.mozilla.org/shot.png" :> <<"h", "t", "t", "p", "s", ":", "/", "/", "d", "e", "v", "e", "l", "o", "p", "e", "r", ".", "m", "o", "z", "i", "l", "l", "a", ".", "o", "r", "g", "/", "s", "h", "o", "t", ".", "p", "n", "g">>)
    @@ ("wcag" :> <<"w", "c", "a", "g">>)
    @@ ("accessibility" :> <<"a", "c", "c", "e", "s", "s", "i", "b", "i", "l", "i", "t", "y">>)
    @@ ("aria" :> <<"a", "r", "i", "a">>)
    @@ ("contrast" :> <<"c", "o", "n", "t", "r", "a", "s", "t">>)
    @@ ("keyboard" :> <<"k", "e", "y", "b", "o", "a", "r", "d">>)
    @@ ("screen reader" :> <<"s", "c", "r", "e", "e", "n", " ", "r", "e", "a", "d", "e", "r">>)
    @@ ("feasibility" :> <<"f", "e", "a", "s", "i", "b", "i", "l", "i", "t", "y">>)
    @@ ("browser support" :> <<"b", "r", "o", "w", "s", "e", "r", " ", "s", "u", "p", "p", "o", "r", "t">>)
    @@ ("performance" :> <<"p", "e", "r", "f", "o", "r", "m", "a", "n", "c", "e">>)
    @@ ("container queries" :> <<"c", "o", "n", "t", "a", "i", "n", "e", "r", " ", "q", "u", "e", "r", "i", "e", "s">>)
    @@ ("supports" :> <<"s", "u", "p", "p", "o", "r", "t", "s">>)
    @@ ("examples" :> <<"e", "x", "a", "m", "p", "l", "e", "s">>)
    @@ ("inspiration" :> <<"i", "n", "s", "p", "i", "r", "a", "t", "i", "o", "n">>)
    @@ ("gallery" :> <<"g", "a", "l", "l", "e", "r", "y">>)
    @@ ("show me" :> <<"s", "h", "o", "w", " ", "m", "e">>)
    @@ ("visual" :> <<"v", "i", "s", "u", "a", "l">>)
    @@ ("best practices " :> <<"b", "e", "s", "t", " ", "p", "r", "a", "c", "t", "i", "c", "e", "s", " ">>)
    @@ ("common pitfalls " :> <<"c", "o", "m", "m", "o", "n", " ", "p", "i", "t", "f", "a", "l", "l", "s", " ">>)
    @@ ("2024 2025 " :> <<"2", "0", "2", "4", " ", "2", "0", "2", "5", " ">>)
    @@ ("wcag " :> <<"w", "c", "a", "g", " ">>)
    @@ ("aria " :> <<"a", "r", "i", "a", " ">>)
    @@ ("keyboard navigation " :> <<"k", "e", "y", "b", "o", "a", "r", "d", " ", "n", "a", "v", "i", "g", "a", "t", "i", "o", "n", " ">>)
    @@ ("examples " :> <<"e", "x", "a", "m", "p", "l", "e", "s", " ">>)
    @@ ("ui inspiration " :> <<"u", "i", " ", "i", "n", "s", "p", "i", "r", "a", "t", "i", "o", "n", " ">>)
    @@ ("design patterns " :> <<"d", "e", "s", "i", "g", "n", " ", "p", "a", "t", "t", "e", "r", "n", "s", " ">>)
    @@ ("browser support " :> <<"b", "r", "o", "w", "s", "e", "r", " ", "s", "u", "p", "p", "o", "r", "t", " ">>)
    @@ ("performance " :> <<"p", "e", "r", "f", "o", "r", "m", "a", "n", "c", "e", " ">>)
    @@ ("mdn " :> <<"m", "d", "n", " ">>)
    @@ ("mobile navigation" :> <<"m", "o", "b", "i", "l", "e", " ", "n", "a", "v", "i", "g", "a", "t", "i", "o", "n">>)
    @@ (" ARIA menus " :> <<" ", "A", "R", "I", "A", " ", "m", "e", "n", "u", "s", " ">>)
    @@ ("     " :> <<" ", " ", " ", " ", " ">>)
    @@ ("Browser Support" :> <<"B", "r", "o", "w", "s", "e", "r", " ", "S", "u", "p", "p", "o", "r", "t">>)
    @@ ("show me examples " :> <<"s", "h", "o", "w", " ", "m", "e", " ", "e", "x", "a", "m", "p", "l", "e", "s", " ">>)
    @@ ("best practices mobile navigation" :> <<"b", "e", "s", "t", " ", "p", "r", "a", "c", "t", "i", "c", "e", "s", " ", "m", "o", "b", "i", "l", "e", " ", "n", "a", "v", "i", "g", "a", "t", "i", "o", "n">>)
    @@ ("common pitfalls mobile navigation" :> <<"c", "o", "m", "m", "o", "n", " ", "p", "i", "t", "f", "a", "l", "l", "s", " ", "m", "o", "b", "i", "l", "e", " ", "n", "a", "v", "i", "g", "a", "t", "i", "o", "n">>)
    @@ ("2024 2025 mobile navigation" :> <<"2", "0", "2", "4", " ", "2", "0", "2", "5", " ", "m", "o", "b", "i", "l", "e", " ", "n", "a", "v", "i", "g", "a", "t", "i", "o", "n">>)
    @@ ("wcag mobile navigation" :> <<"w", "c", "a", "g", " ", "m", "o", "b", "i", "l", "e", " ", "n", "a", "v", "i", "g", "a", "t", "i", "o", "n">>)
    @@ ("aria mobile navigation" :> <<"a", "r", "i", "a", " ", "m", "o", "b", "i", "l", "e", " ", "n", "a", "v", "i", "g", "a", "t", "i", "o", "n">>)
    @@ ("keyboard navigation mobile navigation" :> <<"k", "e", "y", "b", "o", "a", "r", "d", " ", "n", "a", "v", "i", "g", "a", "t", "i", "o", "n", " ", "m", "o", "b", "i", "l", "e", " ", "n", "a", "v", "i", "g", "a", "t", "i", "o", "n">>)
    @@ ("examples mobile navigation" :> <<"e", "x", "a", "m", "p", "l", "e", "s", " ", "m", "o", "b", "i", "l", "e", " ", "n", "a", "v", "i", "g", "a", "t", "i", "o", "n">>)
    @@ ("ui inspiration mobile navigation" :> <<"u", "i", " ", "i", "n", "s", "p", "i", "r", "a", "t", "i", "o", "n", " ", "m", "o", "b", "i", "l", "e", " ", "n", "a", "v", "i", "g", "a", "t", "i", "o", "n">>)
    @@ ("design patterns mobile navigation" :> <<"d", "e", "s", "i", "g", "n", " ", "p", "a", "t", "t", "e", "r", "n", "s", " ", "m", "o", "b", "i", "l", "e", " ", "n", "a", "v", "i", "g", "a", "t", "i", "o", "n">>)
    @@ ("browser support mobile navigation" :> <<"b", "r", "o", "w", "s", "e", "r", " ", "s", "u", "p", "p", "o", "r", "t", " ", "m", "o", "b", "i", "l", "e", " ", "n", "a", "v", "i", "g", "a", "t", "i", "o", "n">>)
    @@ ("performance mobile navigation" :> <<"p", "e", "r", "f", "o", "r", "m", "a", "n", "c", "e", " ", "m", "o", "b", "i", "l", "e", " ", "n", "a", "v", "i", "g", "a", "t", "i", "o", "n">>)
    @@ ("mdn mobile navigation" :> <<"m", "d", "n", " ", "m", "o", "b", "i", "l", "e", " ", "n", "a", "v", "i", "g", "a", "t", "i", "o", "n">>)
    @@ ("ARIA menus" :> <<"A", "R", "I", "A", " ", "m", "e", "n", "u", "s">>)
    @@ ("best practices ARIA menus" :> <<"b", "e", "s", "t", " ", "p", "r", "a", "c", "t", "i", "c", "e", "s", " ", "A", "R", "I", "A", " ", "m", "e", "n", "u", "s">>)
    @@ ("common pitfalls ARIA menus" :> <<"c", "o", "m", "m", "o", "n", " ", "p", "i", "t", "f", "a", "l", "l", "s", " ", "A", "R", "I", "A", " ", "m", "e", "n", "u", "s">>)
    @@ ("2024 2025 ARIA menus" :> <<"2", "0", "2", "4", " ", "2", "0", "2", "5", " ", "A", "R", "I", "A", " ", "m", "e", "n", "u", "s">>)
    @@ ("wcag ARIA menus" :> <<"w", "c", "a", "g", " ", "A", "R", "I", "A", " ", "m", "e", "n", "u", "s">>)
    @@ ("aria ARIA menus" :> <<"a", "r", "i", "a", " ", "A", "R", "I", "A", " ", "m", "e", "n", "u", "s">>)
    @@ ("keyboard navigation ARIA menus" :> <<"k", "e", "y", "b", "o", "a", "r", "d", " ", "n", "a", "v", "i", "g", "a", "t", "i", "o", "n", " ", "A", "R", "I", "A", " ", "m", "e", "n", "u", "s">>)
    @@ ("examples ARIA menus" :> <<"e", "x", "a", "m", "p", "l", "e", "s", " ", "A", "R", "I", "A", " ", "m", "e", "n", "u", "s">>)
    @@ ("ui inspiration ARIA menus" :> <<"u", "i", " ", "i", "n", "s", "p", "i", "r", "a", "t", "i", "o", "n", " ", "A", "R", "I", "A", " ", "m", "e", "n", "u", "s">>)
    @@ ("design patterns ARIA menus" :> <<"d", "e", "s", "i", "g", "n", " ", "p", "a", "t", "t", "e", "r", "n", "s", " ", "A", "R", "I", "A", " ", "m", "e", "n", "u", "s">>)
    @@ ("browser support ARIA menus" :> <<"b", "r", "o", "w", "s", "e", "r", " ", "s", "u", "p", "p", "o", "r", "t", " ", "A", "R", "I", "A", " ", "m", "e", "n", "u", "s">>)
    @@ ("performance ARIA menus" :> <<"p", "e", "r", "f", "o", "r", "m", "a", "n", "c", "e", " ", "A", "R", "I", "A", " ", "m", "e", "n", "u", "s">>)
    @@ ("mdn ARIA menus" :> <<"m", "d", "n", " ", "A", "R", "I", "A", " ", "m", "e", "n", "u", "s">>)
    @@ ("best practices Browser Support" :> <<"b", "e", "s", "t", " ", "p", "r", "a", "c", "t", "i", "c", "e", "s", " ", "B", "r", "o", "w", "s", "e", "r", " ", "S", "u", "p", "p", "o", "r", "t">>)
    @@ ("common pitfalls Browser Support" :> <<"c", "o", "m", "m", "o", "n", " ", "p", "i", "t", "f", "a", "l", "l", "s", " ", "B", "r", "o", "w", "s", "e", "r", " ", "S", "u", "p", "p", "o", "r", "t">>)
    @@ ("2024 2025 Browser Support" :> <<"2", "0", "2", "4", " ", "2", "0", "2", "5", " ", "B", "r", "o", "w", "s", "e", "r", " ", "S", "u", "p", "p", "o", "r", "t">>)
    @@ ("wcag Browser Support" :> <<"w", "c", "a", "g", " ", "B", "r", "o", "w", "s", "e", "r", " ", "S", "u", "p", "p", "o", "r", "t">>)
    @@ ("aria Browser Support" :> <<"a", "r", "i", "a", " ", "B", "r", "o", "w", "s", "e", "r", " ", "S", "u", "p", "p", "o", "r", "t">>)
    @@ ("keyboard navigation Browser Support" :> <<"k", "e", "y", "b", "o", "a", "r", "d", " ", "n", "a", "v", "i", "g", "a", "t", "i", "o", "n", " ", "B", "r", "o", "w", "s", "e", "r", " ", "S", "u", "p", "p", "o", "r", "t">>)
    @@ ("examples Browser Support" :> <<"e", "x", "a", "m", "p", "l", "e", "s", " ", "B", "r", "o", "w", "s", "e", "r", " ", "S", "u", "p", "p", "o", "r", "t">>)
    @@ ("ui inspiration Browser Support" :> <<"u", "i", " ", "i", "n", "s", "p", "i", "r", "a", "t", "i", "o", "n", " ", "B", "r", "o", "w", "s", "e", "r", " ", "S", "u", "p", "p", "o", "r", "t">>)
    @@ ("design patterns Browser Support" :> <<"d", "e", "s", "i", "g", "n", " ", "p", "a", "t", "t", "e", "r", "n", "s", " ", "B", "r", "o", "w", "s", "e", "r", " ", "S", "u", "p", "p", "o", "r", "t">>)
    @@ ("browser support Browser Support" :> <<"b", "r", "o", "w", "s", "e", "r", " ", "s", "u", "p", "p", "o", "r", "t", " ", "B", "r", "o", "w", "s", "e", "r", " ", "S", "u", "p", "p", "o", "r", "t">>)
    @@ ("performance Browser Support" :> <<"p", "e", "r", "f", "o", "r", "m", "a", "n", "c", "e", " ", "B", "r", "o", "w", "s", "e", "r", " ", "S", "u", "p", "p", "o", "r", "t">>)
    @@ ("mdn Browser Support" :> <<"m", "d", "n", " ", "B", "r", "o", "w", "s", "e", "r", " ", "S", "u", "p", "p", "o", "r", "t">>)
    @@ ("show me examples" :> <<"s", "h", "o", "w", " ", "m", "e", " ", "e", "x", "a", "m", "p", "l", "e", "s">>)
    @@ ("best practices show me examples" :> <<"b", "e", "s", "t", " ", "p", "r", "a", "c", "t", "i", "c", "e", "s", " ", "s", "h", "o", "w", " ", "m", "e", " ", "e", "x", "a", "m", "p", "l", "e", "s">>)
    @@ ("common pitfalls show me examples" :> <<"c", "o", "m", "m", "o", "n", " ", "p", "i", "t", "f", "a", "l", "l", "s", " ", "s", "h", "o", "w", " ", "m", "e", " ", "e", "x", "a", "m", "p", "l", "e", "s">>)
    @@ ("2024 2025 show me examples" :> <<"2", "0", "2", "4", " ", "2", "0", "2", "5", " ", "s", "h", "o", "w", " ", "m", "e", " ", "e", "x", "a", "m", "p", "l", "e", "s">>)
    @@ ("wcag show me examples" :> <<"w", "c", "a", "g", " ", "s", "h", "o", "w", " ", "m", "e", " ", "e", "x", "a", "m", "p", "l", "e", "s">>)
    @@ ("aria show me examples" :> <<"a", "r", "i", "a", " ", "s", "h", "o", "w", " ", "m", "e", " ", "e", "x", "a", "m", "p", "l", "e", "s">>)
    @@ ("keyboard navigation show me examples" :> <<"k", "e", "y", "b", "o", "a", "r", "d", " ", "n", "a", "v", "i", "g", "a", "t", "i", "o", "n", " ", "s", "h", "o", "w", " ", "m", "e", " ", "e", "x", "a", "m", "p", "l", "e", "s">>)
    @@ ("examples show me examples" :> <<"e", "x", "a", "m", "p", "l", "e", "s", " ", "s", "h", "o", "w", " ", "m", "e", " ", "e", "x", "a", "m", "p", "l", "e", "s">>)
    @@ ("ui inspiration show me examples" :> <<"u", "i", " ", "i", "n", "s", "p", "i", "r", "a", "t", "i", "o", "n", " ", "s", "h", "o", "w", " ", "m", "e", " ", "e", "x", "a", "m", "p", "l", "e", "s">>)
    @@ ("design patterns show me examples" :> <<"d", "e", "s", "i", "g", "n", " ", "p", "a", "t", "t", "e", "r", "n", "s", " ", "s", "h", "o", "w", " ", "m", "e", " ", "e", "x", "a", "m", "p", "l", "e", "s">>)
    @@ ("browser support show me examples" :> <<"b", "r", "o", "w", "s", "e", "r", " ", "s", "u", "p", "p", "o", "r", "t", " ", "s", "h", "o", "w", " ", "m", "e", " ", "e", "x", "a", "m", "p", "l", "e", "s">>)
    @@ ("performance show me examples" :> <<"p", "e", "r", "f", "o", "r", "m", "a", "n", "c", "e", " ", "s", "h", "o", "w", " ", "m", "e", " ", "e", "x", "a", "m", "p", "l", "e", "s">>)
    @@ ("mdn show me examples" :> <<"m", "d", "n", " ", "s", "h", "o", "w", " ", "m", "e", " ", "e", "x", "a", "m", "p", "l", "e", "s">>)
    @@ ("https://w3.org/e" :> <<"h", "t", "t", "p", "s", ":", "/", "/", "w", "3", ".", "o", "r", "g", "/", "e">>)
    @@ ("key" :> <<"k", "e", "y">>)
    @@ (" " :> <<" ">>)
    @@ ("2" :> <<"2">>)
    @@ ("3" :> <<"3">>)
    @@ ("abc" :> <<"a", "b", "c">>)
    @@ ("https://lawsofux.com" :> <<"h", "t", "t", "p", "s", ":", "/", "/", "l", "a", "w", "s", "o", "f", "u", "x", ".", "c", "o", "m">>)
    @@ ("https://lawsofux.com/" :> <<"h", "t", "t", "p", "s", ":", "/", "/", "l", "a", "w", "s", "o", "f", "u", "x", ".", "c", "o", "m", "/">>)
    @@ ("https://lawsofux.com/img/hero.jpg" :> <<"h", "t", "t", "p", "s", ":", "/", "/", "l", "a", "w", "s", "o", "f", "u", "x", ".", "c", "o", "m", "/", "i", "m", "g", "/", "h", "e", "r", "o", ".", "j", "p", "g">>)
    @@ ("https://www.nngroup.com:443/a" :> <<"h", "t", "t", "p", "s", ":", "/", "/", "w", "w", "w", ".", "n", "n", "g", "r", "o", "u", "p", ".", "c", "o", "m", ":", "4", "4", "3", "/", "a">>)
    @@ ("https://example.com?ref=w3.org" :> <<"h", "t", "t", "p", "s", ":", "/", "/", "e", "x", "a", "m", "p", "l", "e", ".", "c", "o", "m", "?", "r", "e", "f", "=", "w", "3", ".", "o", "r", "g">>)
    @@ ("https://x.com/" :> <<"h", "t", "t", "p", "s", ":", "/", "/", "x", ".", "c", "o", "m", "/">>)
    @@ ("https://x.com/HERO.JPG" :> <<"h", "t", "t", "p", "s", ":", "/", "/", "x", ".", "c", "o", "m", "/", "H", "E", "R", "O", ".", "J", "P", "G">>)
    @@ ("https://x.com/hero.jpg?w=800" :> <<"h", "t", "t", "p", "s", ":", "/", "/", "x", ".", "c", "o", "m", "/", "h", "e", "r", "o", ".", "j", "p", "g", "?", "w", "=", "8", "0", "0">>)
    @@ ("GPT-5" :> <<"G", "P", "T", "-", "5">>)
    @@ ("gpt-5" :> <<"g", "p", "t", "-", "5">>)
    @@ ("Claude Sonnet 4.5" :> <<"C", "l", "a", "u", "d", "e", " ", "S", "o", "n", "n", "e", "t", " ", "4", ".", "5">>)
    @@ ("claude sonnet 4.5" :> <<"c", "l", "a", "u", "d", "e", " ", "s", "o", "n", "n", "e", "t", " ", "4", ".", "5">>)
    @@ ("Gemini" :> <<"G", "e", "m", "i", "n", "i">>)
    @@ ("gemini" :> <<"g", "e", "m", "i", "n", "i">>)
    @@ ("openai" :> <<"o", "p", "e", "n", "a", "i">>)
    @@ ("text-a" :> <<"t", "e", "x", "t", "-", "a">>)
    @@ ("text-b" :> <<"t", "e", "x", "t", "-", "b">>)
    @@ ("text-c" :> <<"t", "e", "x", "t", "-", "c">>)
    @@ ("text" :> <<"t", "e", "x", "t">>)

Chars(s) == StrChars[s]

\* the string with the given characters
InternIn(table, cs) == CHOOSE s \in DOMAIN table : table[s] = cs
StrOf(cs) == InternIn(StrChars, cs)

\* the characters of every string of a tuple
CharsOfAll(strs) == [i \in 1..Len(strs) |-> Chars(strs[i])]

\* str.lower() on one character
LowerChar(c) ==
    CASE c = "A" -> "a" [] c = "B" -> "b" [] c = "C" -> "c" [] c = "D" -> "d"
      [] c = "E" -> "e" [] c = "F" -> "f" [] c = "G" -> "g" [] c = "H" -> "h"
      [] c = "I" -> "i" [] c = "J" -> "j" [] c = "K" -> "k" [] c = "L" -> "l"
      [] c = "M" -> "m" [] c = "N" -> "n" [] c = "O" -> "o" [] c = "P" -> "p"
      [] c = "Q" -> "q" [] c = "R" -> "r" [] c = "S" -> "s" [] c = "T" -> "t"
      [] c = "U" -> "u" [] c = "V" -> "v" [] c = "W" -> "w" [] c = "X" -> "x"
      [] c = "Y" -> "y" [] c = "Z" -> "z" [] OTHER -> c

\* str.lower()
Lower(cs) == [i \in 1..Len(cs) |-> LowerChar(cs[i])]

\* str.find(pat): the 1-based index of the first occurrence, 0 when there is none
Find(cs, pat) ==
    LET hits == {i \in 1..(Len(cs) - Len(pat) + 1) : SubSeq(cs, i, i + Len(pat) - 1) = pat}
    IN  IF hits = {} THEN 0 ELSE CHOOSE i \in hits : \A j \in hits : i <= j

\* str.rfind(pat): the 1-based index of the last occurrence, 0 when there is none
RFind(cs, pat) ==
    LET hits == {i \in 1..(Len(cs) - Len(pat) + 1) : SubSeq(cs, i, i + Len(pat) - 1) = pat}
    IN  IF hits = {} THEN 0 ELSE CHOOSE i \in hits : \A j \in hits : j <= i

\* str.endswith(suffix)
EndsWith(cs, suffix) ==
    /\ Len(suffix) <= Len(cs)
    /\ SubSeq(cs, Len(cs) - Len(suffix) + 1, Len(cs)) = suffix

\* str.startswith(prefix)
StartsWith(cs, prefix) ==
    /\ Len(prefix) <= Len(cs)
    /\ SubSeq(cs, 1, Len(prefix)) = prefix

\* pat in str
Contains(cs, pat) == Find(cs, pat) # 0

\* str.split(sep, 1)[-1]: what follows the first sep, or all of it
AfterFirst(cs, sep) ==
    LET i == Find(cs, sep)
    IN  IF i = 0 THEN cs ELSE SubSeq(cs, i + Len(sep), Len(cs))

\* str.split(sep, 1)[0]: what precedes the first sep, or all of it
BeforeFirst(cs, sep) ==
    LET i == Find(cs, sep)
    IN  IF i = 0 THEN cs ELSE SubSeq(cs, 1, i - 1)

Whitespace == {" ", "\n"}

\* str.strip()
RECURSIVE LStrip(_)
LStrip(cs) == IF cs # <<>> /\ Head(cs) \in Whitespace THEN LStrip(Tail(cs)) ELSE cs
RECURSIVE RStrip(_)
RStrip(cs) ==
    IF cs # <<>> /\ cs[Len(cs)] \in Whitespace THEN RStrip(SubSeq(cs, 1, Len(cs) - 1)) ELSE cs
Strip(cs) == RStrip(LStrip(cs))

Min(a, b) == IF a <= b THEN a ELSE b
Max(a, b) == IF a >= b THEN a ELSE b

\* list[:n] for n >= 0
Take(s, n) == SubSeq(s, 1, Min(n, Len(s)))

Range(s) == {s[i] : i \in 1..Len(s)}

(***************************************************************************)
(* search/deduplicator.py                                                  *)
(***************************************************************************)

\* AUTHORITY_DOMAINS, weights scaled by ten
AUTHORITY_DOMAINS ==
    <<  [dom |-> "nngroup.com", weight |-> 30],
        [dom |-> "alistapart.com", weight |-> 20],
        [dom |-> "smashingmagazine.com", weight |-> 20],
        [dom |-> "web.dev", weight |-> 30],
        [dom |-> "developer.mozilla.org", weight |-> 30],
        [dom |-> "w3.org", weight |-> 30],
        [dom |-> "lawsofux.com", weight |-> 20],
        [dom |-> "baymard.com", weight |-> 25] >>

\* _domain(url): url.split("//", 1)[-1].split("/", 1)[0].lower()
_domain(url) == Lower(BeforeFirst(AfterFirst(Chars(url), <<"/", "/">>), <<"/">>))

\* the loop over AUTHORITY_DOMAINS.items(): authority = max(authority, weight)
RECURSIVE AuthorityFrom(_, _, _)
AuthorityFrom(d, i, authority) ==
    IF i > Len(AUTHORITY_DOMAINS) THEN authority
    ELSE AuthorityFrom(d, i + 1,
            IF EndsWith(d, Chars(AUTHORITY_DOMAINS[i].dom))
            THEN Max(authority, AUTHORITY_DOMAINS[i].weight)
            ELSE authority)

Authority(url) == AuthorityFrom(_domain(url), 1, 0)

\* the loop of dedup_and_rank: skip a candidate with no url or a url already
\* seen, otherwise score it and keep it
RECURSIVE Prune(_, _, _, _)
Prune(candidates, i, seen_urls, pruned) ==
    IF i > Len(candidates) THEN pruned
    ELSE LET c == candidates[i]
             url == c.url
         IN  IF url = None \/ url = "" \/ url \in seen_urls
             THEN Prune(candidates, i + 1, seen_urls, pruned)
             ELSE Prune(candidates, i + 1, seen_urls \cup {url},
                        Append(pruned, [title |-> c.title, url |-> url,
                                        score |-> Authority(url)]))

\* a variant that puts x in front of the elements with its score
InsertByScore_before_equals(sorted, x) ==
    LET k == Cardinality({j \in 1..Len(sorted) : sorted[j].score > x.score})
    IN  SubSeq(sorted, 1, k) \o <<x>> \o SubSeq(sorted, k + 1, Len(sorted))

\* one insertion of the stable descending sort: x goes behind every element
\* whose score is at least its own
InsertByScore(sorted, x) ==
    LET k == Cardinality({j \in 1..Len(sorted) : sorted[j].score >= x.score})
    IN  SubSeq(sorted, 1, k) \o <<x>> \o SubSeq(sorted, k + 1, Len(sorted))

\* list.sort(key=score, reverse=True): stable, descending
RECURSIVE SortByScoreDesc(_, _, _)
SortByScoreDesc(s, i, sorted) ==
    IF i > Len(s) THEN sorted
    ELSE SortByScoreDesc(s, i + 1, InsertByScore(sorted, s[i]))

\* a variant that drops the duplicates and leaves out the sort
dedup_and_rank_unsorted(candidates) == Prune(candidates, 1, {}, <<>>)

dedup_and_rank(candidates) ==
    SortByScoreDesc(Prune(candidates, 1, {}, <<>>), 1, <<>>)

(***************************************************************************)
(* HTTP: a response is its status, "timeout" standing for any network      *)
(* error (httpx.HTTPError that is no HTTPStatusError)                      *)
(***************************************************************************)

\* resp.raise_for_status(): raises on 4xx and 5xx
RaisesForStatus(status) == status \in {"401", "403", "404", "429", "500"}

(***************************************************************************)
(* extract/jina_extractor.py                                               *)
(***************************************************************************)

\* fetch_with_jina(url): the reader's text, or the exception of the failed
\* request (nothing is caught here)
fetch_with_jina(status, text) ==
    IF status = "timeout" \/ RaisesForStatus(status)
    THEN [kind |-> "raise", content |-> None]
    ELSE [kind |-> "ok", content |-> text]

(***************************************************************************)
(* extract/image_extractor.py                                              *)
(* A parsed page is what the xpath queries see of it: the six meta values  *)
(* in the order they are read, and the <img src> elements with their width *)
(* and height attributes.  An optional integer is a set of at most one.    *)
(***************************************************************************)

ALLOWED_EXTS == <<".jpg", ".jpeg", ".png", ".webp">>
BLOCKLIST_SUBSTRINGS ==
    <<"logo", "favicon", "sprite", "icon", "avatar", "badge", "masthead", "placeholder">>
SKIP_IMAGE_DOMAINS == <<"developer.mozilla.org", "w3.org", "web.dev">>
MIN_DIMENSION == 120

\* _domain_of(url)
_domain_of(url) == Lower(BeforeFirst(AfterFirst(Chars(url), <<"/", "/">>), <<"/">>))

\* _is_blocked(url)
\* the three tests of _is_blocked on the domain and the lowered url
IsBlockedBy(dom, lower, skip, blocklist, exts) ==
    \/ \E i \in 1..Len(skip) : EndsWith(dom, skip[i])
    \/ \E i \in 1..Len(blocklist) : Contains(lower, blocklist[i])
    \/ ~ \E i \in 1..Len(exts) : EndsWith(lower, exts[i])

_is_blocked(url) ==
    IsBlockedBy(_domain_of(url), Lower(Chars(url)), CharsOfAll(SKIP_IMAGE_DOMAINS),
                CharsOfAll(BLOCKLIST_SUBSTRINGS), CharsOfAll(ALLOWED_EXTS))

\* _parse_int(value): int(str(value).strip()), None when missing or malformed
_parse_int(value) ==
    CASE value = "800" -> {800}
      [] value = "600" -> {600}
      [] value = "300" -> {300}
      [] value = "150" -> {150}
      [] value = "64" -> {64}
      [] OTHER -> {}

\* the size bonus of one dimension
DimScore(dim) ==
    IF dim >= 600 THEN 3
    ELSE IF dim >= 300 THEN 2
    ELSE IF dim >= MIN_DIMENSION THEN 1
    ELSE 0

\* the loop over (width, height)
SizeScore(dims) ==
    LET known == dims[1] \cup dims[2]
    IN  IF known = {} THEN 0
        ELSE CHOOSE s \in {DimScore(d) : d \in known} :
                \A d \in known : DimScore(d) <= s

\* a variant without the bonus of a meta value
_score_candidate_no_meta_bonus(url, from_meta, dims) ==
    IF _is_blocked(url) THEN 0 - 10
    ELSE SizeScore(dims)

\* _score_candidate(url, from_meta, dims)
_score_candidate(url, from_meta, dims) ==
    IF _is_blocked(url) THEN 0 - 10
    ELSE (IF from_meta THEN 3 ELSE 0) + SizeScore(dims)

\* a variant that returns None on every failure
_fetch_html_direct_none_on_any_failure(status, page) ==
    IF status = "timeout" \/ RaisesForStatus(status)
    THEN [kind |-> "none", page |-> None]
    ELSE [kind |-> "ok", page |-> page]

\* _fetch_html_direct: the text, None on 401/403/429 and on network errors,
\* and the HTTPStatusError re-raised on any other error status
_fetch_html_direct(status, page) ==
    IF status = "timeout" THEN [kind |-> "none", page |-> None]
    ELSE IF RaisesForStatus(status)
         THEN IF status \in {"403", "401", "429"}
              THEN [kind |-> "none", page |-> None]
              ELSE [kind |-> "raise", page |-> None]
         ELSE [kind |-> "ok", page |-> page]

\* _fetch_html_via_jina: the text, None on any httpx.HTTPError
_fetch_html_via_jina(status, page) ==
    IF status = "timeout" \/ RaisesForStatus(status)
    THEN [kind |-> "none", page |-> None]
    ELSE [kind |-> "ok", page |-> page]

\* the documents the model's web serves
NoMeta == <<None, None, None, None, None, None>>
Pages ==
    [ hero |->      [empty |-> FALSE,
                     meta |-> <<None, "/img/hero.jpg", None, None, None, None>>,
                     imgs |-> << >>],
      logo_big |->  [empty |-> FALSE,
                     meta |-> <<None, "https://x.com/logo.png", None, None, None, None>>,
                     imgs |-> << [src |-> "https://x.com/small.png", width |-> "150", height |-> None],
                                 [src |-> "https://x.com/big.png", width |-> "800", height |-> "600"] >>],
      photo |->     [empty |-> FALSE,
                     meta |-> NoMeta,
                     imgs |-> << [src |-> "https://cdn.example.com/photo.webp", width |-> None, height |-> "300"] >>],
      bare |->      [empty |-> FALSE, meta |-> NoMeta, imgs |-> << >>],
      blank |->     [empty |-> TRUE, meta |-> NoMeta, imgs |-> << >>] ]

\* _absolutize(base_url, maybe_relative_url): urljoin, for the references the
\* pages of the model hold: one with a scheme is returned unchanged, one that
\* starts with "/" replaces the path of the base, any other replaces the last
\* segment of the base's path
\* scheme and host of a url
UrlOrigin(b) == SubSeq(b, 1, Find(b, <<"/", "/">>) + 1) \o BeforeFirst(AfterFirst(b, <<"/", "/">>), <<"/">>)

\* a url up to and including the last "/" of its path
UrlDir(b) ==
    IF Find(AfterFirst(b, <<"/", "/">>), <<"/">>) = 0 THEN b \o <<"/">>
    ELSE SubSeq(b, 1, RFind(b, <<"/">>))

urljoin(b, r) ==
    IF Contains(r, <<":", "/", "/">>) THEN r
    ELSE IF StartsWith(r, <<"/">>) THEN UrlOrigin(b) \o r
    ELSE UrlDir(b) \o r

_absolutize(base_url, ref) == StrOf(urljoin(Chars(base_url), Chars(ref)))

\* the six meta values that are not empty, in order
MetaValues(page) == SelectSeq(page.meta, LAMBDA mv : mv # None /\ mv # "")

\* doc.xpath('//img[@src]')[:10], skipping an empty src
ImgElements(page) == SelectSeq(Take(page.imgs, 10), LAMBDA img : img.src # None /\ img.src # "")

\* the candidates of extract_primary_image, metas first
\* what one candidate of the page is before its URL is made absolute
RawCandidates(metas, imgs) ==
    [i \in 1..Len(metas) |-> [ref |-> metas[i], from_meta |-> TRUE, dims |-> <<{}, {}>>]]
    \o
    [i \in 1..Len(imgs) |->
        [ref |-> imgs[i].src, from_meta |-> FALSE,
         dims |-> <<_parse_int(imgs[i].width), _parse_int(imgs[i].height)>>]]

AbsolutizeAll(page_url, raws) ==
    [i \in 1..Len(raws) |->
        [url |-> _absolutize(page_url, raws[i].ref), from_meta |-> raws[i].from_meta,
         dims |-> raws[i].dims]]

Candidates(page_url, page) ==
    AbsolutizeAll(page_url, RawCandidates(MetaValues(page), ImgElements(page)))

CandScore(c) == _score_candidate(c.url, c.from_meta, c.dims)

\* a variant in which a later candidate with the same score replaces the best
RECURSIVE SelectBest_last_wins(_, _, _, _, _)
SelectBest_last_wins(cands, scores, i, best_url, best_score) ==
    IF i > Len(cands) THEN [url |-> best_url, score |-> best_score]
    ELSE IF scores[i] >= best_score
         THEN SelectBest_last_wins(cands, scores, i + 1, cands[i].url, scores[i])
         ELSE SelectBest_last_wins(cands, scores, i + 1, best_url, best_score)

\* the selection loop of extract_primary_image: a later candidate replaces
\* the best one only with a strictly higher score
RECURSIVE SelectBest(_, _, _, _, _)
SelectBest(cands, scores, i, best_url, best_score) ==
    IF i > Len(cands) THEN [url |-> best_url, score |-> best_score]
    ELSE IF scores[i] > best_score
         THEN SelectBest(cands, scores, i + 1, cands[i].url, scores[i])
         ELSE SelectBest(cands, scores, i + 1, best_url, best_score)

\* the score of every candidate
Scores(cands) == [i \in 1..Len(cands) |-> CandScore(cands[i])]

\* best_url if best_score >= 1 else None
BestOf(cands) == SelectBest(cands, Scores(cands), 1, None, 0 - 999)

\* the page text both variants parse: the direct fetch, else the proxy
FetchHtml(dstatus, pstatus, dpage, ppage) ==
    IF _fetch_html_direct(dstatus, dpage).kind = "none"
    THEN _fetch_html_via_jina(pstatus, ppage)
    ELSE _fetch_html_direct(dstatus, dpage)

\* lines 129-133: the requests for the HTML of a page, in the order sent
HtmlRequests(dstatus, dpage) ==
    IF _fetch_html_direct(dstatus, dpage).kind = "none"
    THEN <<"direct", "proxy">>
    ELSE <<"direct">>

\* extract_primary_image(page_url): the url or None, or an exception
\* (the re-raised status error, or lxml's on an empty document)
PrimaryOf(best) == [kind |-> "ok", image_url |-> IF best.score >= 1 THEN best.url ELSE None]

\* lines 139-172: the candidates of the parsed page, scored and selected
SelectPrimary(page_url, page) == PrimaryOf(BestOf(Candidates(page_url, page)))

\* extract_primary_image once the fetch of the HTML has answered
PrimaryFrom(page_url, got) ==
    IF got.kind = "raise" THEN [kind |-> "raise", image_url |-> None]
    ELSE IF got.kind = "none" THEN [kind |-> "ok", image_url |-> None]
    ELSE IF Pages[got.page].empty THEN [kind |-> "raise", image_url |-> None]
    ELSE SelectPrimary(page_url, Pages[got.page])

extract_primary_image(page_url, dstatus, pstatus, dpage, ppage) ==
    PrimaryFrom(page_url, FetchHtml(dstatus, pstatus, dpage, ppage))

NoImage == [kind |-> "ok", image_url |-> None, source |-> "none", dims |-> <<{}, {}>>]

\* extract_primary_image_debug(page_url): the first meta candidate scoring at
\* least 1, else the first <img> candidate scoring at least 1
ImageRaised == [kind |-> "raise", image_url |-> None, source |-> "none", dims |-> <<{}, {}>>]

\* the smallest index of a set of indexes
First(S) == CHOOSE i \in S : \A j \in S : i <= j

\* the two loops of extract_primary_image_debug over the scored candidates
FirstGood(cands, scores) ==
    IF \E i \in 1..Len(cands) : scores[i] >= 1 /\ cands[i].from_meta
    THEN [kind |-> "ok",
          image_url |-> cands[First({i \in 1..Len(cands) :
                                      scores[i] >= 1 /\ cands[i].from_meta})].url,
          source |-> "meta", dims |-> <<{}, {}>>]
    ELSE IF \E i \in 1..Len(cands) : scores[i] >= 1
    THEN [kind |-> "ok",
          image_url |-> cands[First({i \in 1..Len(cands) : scores[i] >= 1})].url,
          source |-> "dom",
          dims |-> cands[First({i \in 1..Len(cands) : scores[i] >= 1})].dims]
    ELSE NoImage

FirstGoodOf(cands) == FirstGood(cands, Scores(cands))

\* extract_primary_image_debug once the fetch of the HTML has answered
DebugFrom(page_url, got) ==
    IF got.kind = "raise" THEN ImageRaised
    ELSE IF got.kind = "none" THEN NoImage
    ELSE IF Pages[got.page].empty THEN ImageRaised
    ELSE FirstGoodOf(Candidates(page_url, Pages[got.page]))

extract_primary_image_debug(page_url, dstatus, pstatus, dpage, ppage) ==
    DebugFrom(page_url, FetchHtml(dstatus, pstatus, dpage, ppage))

(***************************************************************************)
(* The web the model fetches from: what each page URL serves               *)
(***************************************************************************)

\* the reader's text for a page
PageText(url) ==
    CASE url = "https://www.nngroup.com/a" -> "text-a"
      [] url = "https://baymard.com/b" -> "text-b"
      [] url = "https://example.com/c" -> "text-c"
      [] OTHER -> "text"

\* the document a direct fetch of the page returns
DirectPage(url) ==
    CASE url = "https://www.nngroup.com/a" -> "hero"
      [] url = "https://baymard.com/b" -> "logo_big"
      [] url = "https://example.com/c" -> "blank"
      [] url = "https://lawsofux.com" -> "hero"
      [] OTHER -> "bare"

\* the document the HTML proxy returns for the page
ProxyPage(url) ==
    CASE url = "https://baymard.com/b" -> "photo"
      [] OTHER -> "bare"

\* the page URLs of the model
WebUrls ==
    { "https://www.nngroup.com/a", "https://baymard.com/b", "https://example.com/c",
      "https://alistapart.com/d", "https://W3.org/e", "https://web.dev/f",
      "https://lawsofux.com/g", "https://blog.example.org/h",
      "https://smashingmagazine.com/i", "https://developer.mozilla.org/j",
      "https://lawsofux.com" }

\* What the requests for one page meet: the statuses of the reader's text
\* request, of the direct HTML request and of the HTML proxy request.
AllServed == [u \in WebUrls |-> [text |-> "200", direct |-> "200", proxy |-> "200"]]

\* every request for u fails
Down(u) == [AllServed EXCEPT ![u] = [text |-> "timeout", direct |-> "401", proxy |-> "timeout"]]

\* the states of the network a batch of fetches may run in
NetScenarios ==
    [ served |-> AllServed,
      refused |-> [u \in WebUrls |-> [text |-> "500", direct |-> "403", proxy |-> "500"]],
      a_text_fails |-> [AllServed EXCEPT !["https://www.nngroup.com/a"] =
                            [text |-> "500", direct |-> "200", proxy |-> "200"]],
      b_throttled |-> [AllServed EXCEPT !["https://baymard.com/b"] =
                            [text |-> "200", direct |-> "429", proxy |-> "200"]],
      b_gone |-> [AllServed EXCEPT !["https://baymard.com/b"] =
                            [text |-> "200", direct |-> "404", proxy |-> "200"]],
      a_down |-> Down("https://www.nngroup.com/a"),
      b_down |-> Down("https://baymard.com/b"),
      c_down |-> Down("https://example.com/c") ]

NetNames == DOMAIN NetScenarios

(***************************************************************************)
(* extract/parallel_extractor.py                                           *)
(***************************************************************************)

\* fetch_single(result): both exceptions are caught; the record is always
\* returned
\* the statuses the three requests for a page meet
StatusesOf(scenario, url) == NetScenarios[scenario][url]

\* content = fetch_with_jina(url), "" on an exception
ContentOf(text) == IF text.kind = "raise" THEN "" ELSE text.content

\* the record fetch_single builds: an exception of the image lookup leaves
\* image_url None, image_source "none" and no dimensions
FetchedRecord(result, text, img) ==
    [title |-> result.title,
     url |-> result.url,
     content |-> ContentOf(text),
     image_url |-> IF img.kind = "raise" THEN None ELSE img.image_url,
     image_source |-> IF img.kind = "raise" THEN "none" ELSE img.source,
     image_dims |-> IF img.kind = "raise" THEN <<{}, {}>> ELSE img.dims]

\* the image lookup of fetch_single
DebugImage(url, include_images, at) ==
    IF include_images
    THEN extract_primary_image_debug(url, at.direct, at.proxy, DirectPage(url), ProxyPage(url))
    ELSE NoImage

FetchSingleAt(result, include_images, at) ==
    FetchedRecord(result, fetch_with_jina(at.text, PageText(result.url)),
                  DebugImage(result.url, include_images, at))

fetch_single(result, include_images, scenario) ==
    FetchSingleAt(result, include_images, StatusesOf(scenario, result.url))

\* url_to_index.get(x["url"], 999): the dict keeps the last index of a url
UrlIndex(ranked_results, url) ==
    LET at == {i \in 1..Len(ranked_results) : ranked_results[i].url = url}
    IN  IF at = {} THEN 999 ELSE CHOOSE i \in at : \A j \in at : j <= i

\* one insertion of the stable ascending sort by url_to_index
InsertByIndex(ranked_results, sorted, x) ==
    LET k == Cardinality({j \in 1..Len(sorted) :
                 UrlIndex(ranked_results, sorted[j].url) <= UrlIndex(ranked_results, x.url)})
    IN  SubSeq(sorted, 1, k) \o <<x>> \o SubSeq(sorted, k + 1, Len(sorted))

\* extracted.sort(key=lambda x: url_to_index.get(x["url"], 999))
RECURSIVE SortByIndex(_, _, _, _)
SortByIndex(ranked_results, s, i, sorted) ==
    IF i > Len(s) THEN sorted
    ELSE SortByIndex(ranked_results, s, i + 1, InsertByIndex(ranked_results, sorted, s[i]))

\* a variant that returns the records in the order the futures completed
RestoreOrder_completion_order(ranked_results, extracted) == extracted

\* the tail of extract_content_parallel: restore the ranked order
RestoreOrder(ranked_results, extracted) == SortByIndex(ranked_results, extracted, 1, <<>>)

(***************************************************************************)
(* utils/json_utils.py                                                     *)
(* The LLM's text is a sequence of characters.  "{", "}", "[", "]", ","    *)
(* and the whitespace " " and "\n" are themselves; "x" is a character of   *)
(* prose; any other letter stands for the text of one whole member         *)
(* ("key": value) of the answer, see MemberKey and MemberValue.            *)
(***************************************************************************)

\* str.replace(old, new): every occurrence, left to right, not overlapping
RECURSIVE Replace(_, _, _)
Replace(cs, old, new) ==
    IF Len(cs) < Len(old) THEN cs
    ELSE IF SubSeq(cs, 1, Len(old)) = old
         THEN new \o Replace(SubSeq(cs, Len(old) + 1, Len(cs)), old, new)
         ELSE <<Head(cs)>> \o Replace(Tail(cs), old, new)

MemberChars == {"S", "s", "B", "b", "L", "E", "F", "G", "e", "C", "c", "R", "r", "Q", "Z"}

\* the key of the member a letter stands for
MemberKey(c) ==
    CASE c \in {"S", "s"} -> "summary"
      [] c \in {"B", "b", "L"} -> "best_practices"
      [] c \in {"E", "F", "G", "e"} -> "examples"
      [] c \in {"C", "c"} -> "considerations"
      [] c \in {"R", "r"} -> "sources"
      [] c = "Q" -> "query_classification"
      [] OTHER -> "extra"

ResponseKeys ==
    {"query_classification", "summary", "best_practices", "examples",
     "considerations", "sources", "extra"}

\* json.loads on an object's members: a dict, a later member replacing an
\* earlier one with the same key; absent keys map to None
RECURSIVE DictOf(_, _, _)
DictOf(members, i, dict) ==
    IF i > Len(members) THEN dict
    ELSE DictOf(members, i + 1, [dict EXCEPT ![MemberKey(members[i])] = members[i]])

EmptyDict == [k \in ResponseKeys |-> None]

\* json.loads(text): whitespace between tokens is skipped; the text must be
\* one value: an object "{" member ("," member)* "}" or "{}", or a list "[]"
JsonLoads(cs) ==
    LET toks == SelectSeq(cs, LAMBDA c : c \notin Whitespace)
        n == Len(toks)
        inner == SubSeq(toks, 2, n - 1)
        members == [i \in 1..((Len(inner) + 1) \div 2) |-> inner[2 * i - 1]]
        is_object ==
            /\ n >= 2
            /\ toks[1] = "{"
            /\ toks[n] = "}"
            /\ \/ Len(inner) = 0
               \/ /\ Len(inner) % 2 = 1
                  /\ \A i \in 1..Len(inner) :
                        IF i % 2 = 1 THEN inner[i] \in MemberChars ELSE inner[i] = ","
    IN  IF is_object THEN [kind |-> "dict", value |-> DictOf(members, 1, EmptyDict), doc |-> cs]
        ELSE IF toks = <<"[", "]">> THEN [kind |-> "list", value |-> EmptyDict, doc |-> cs]
        ELSE [kind |-> "JSONDecodeError", value |-> EmptyDict, doc |-> cs]

\* a variant that strips the text and never slices it
SliceObject_stripping_only(raw) == Strip(raw)

\* the slicing step of coerce_json_object
SliceObject(raw) ==
    LET raw_stripped == Strip(raw)
        start == Find(raw_stripped, <<"{">>)
        end == RFind(raw_stripped, <<"}">>)
    IN  IF ~ StartsWith(raw_stripped, <<"{">>) \/ ~ EndsWith(raw_stripped, <<"}">>)
        THEN IF start # 0 /\ end # 0 /\ end > start
             THEN SubSeq(raw_stripped, start, end)
             ELSE raw_stripped
        ELSE raw_stripped

\* the repair step: drop the comma of ",\n\n" and of ",\n \n"
Cleaned(raw_stripped) ==
    Replace(Replace(raw_stripped, <<",", "\n", "\n">>, <<"\n", "\n">>),
            <<",", "\n", " ", "\n">>, <<"\n", " ", "\n">>)

\* coerce_json_object(raw): the parsed value, or the JSONDecodeError of the
\* second json.loads, whose doc is the text that call was given
coerce_json_object(raw) ==
    LET raw_stripped == SliceObject(raw)
        first == JsonLoads(raw_stripped)
    IN  IF first.kind # "JSONDecodeError" THEN first
        ELSE JsonLoads(Cleaned(raw_stripped))

(***************************************************************************)
(* schemas/responses.py                                                    *)
(***************************************************************************)

\* HttpUrl: an absolute http or https URL with a host
IsHttpUrl(url) ==
    /\ url # None
    /\ LET cs == Lower(Chars(url))
           rest == AfterFirst(cs, <<":", "/", "/">>)
       IN  /\ \/ StartsWith(cs, <<"h", "t", "t", "p", ":", "/", "/">>)
              \/ StartsWith(cs, <<"h", "t", "t", "p", "s", ":", "/", "/">>)
           /\ BeforeFirst(rest, <<"/">>) # <<>>

\* the value a member letter stands for, as far as the schema looks at it:
\* its JSON type and, for the lists, their items
MemberValue(c) ==
    CASE c = "S" -> [type |-> "str", items |-> <<>>]
      [] c = "s" -> [type |-> "list", items |-> <<>>]
      [] c = "B" -> [type |-> "list", items |-> <<"p1", "p2", "p3", "p4", "p5">>]
      [] c = "b" -> [type |-> "list", items |-> <<"p1", "p2">>]
      [] c = "L" -> [type |-> "list", items |->
            <<"p1", "p2", "p3", "p4", "p5", "p6", "p7", "p8", "p9", "p10", "p11">>]
      [] c = "E" -> [type |-> "list", items |->
            << [title |-> "ex1", url |-> "https://www.nngroup.com/a", image_url |-> None],
               [title |-> "ex2", url |-> "https://baymard.com/b",
                image_url |-> "https://x.com/big.png"],
               [title |-> "ex3", url |-> "https://blog.example.org/h", image_url |-> None],
               [title |-> "ex4", url |-> "https://lawsofux.com", image_url |-> None] >>]
      [] c = "F" -> [type |-> "list", items |-> <<>>]
      [] c = "G" -> [type |-> "list", items |->
            [i \in 1..7 |-> [title |-> "ex", url |-> "https://baymard.com/b",
                             image_url |-> "https://x.com/big.png"]]]
      [] c = "e" -> [type |-> "list", items |->
            << [title |-> "ex1", url |-> "/img/hero.jpg", image_url |-> None] >>]
      [] c = "C" -> [type |-> "dict", items |-> <<>>]
      [] c = "c" -> [type |-> "str", items |-> <<>>]
      [] c = "R" -> [type |-> "list", items |->
            << [title |-> "src1", url |-> "https://www.nngroup.com/a"] >>]
      [] c = "r" -> [type |-> "list", items |->
            << [title |-> "src1", url |-> "logo"] >>]
      [] c = "Q" -> [type |-> "str", items |-> <<>>]
      [] OTHER -> [type |-> "str", items |-> <<>>]

\* Example(**item): title and url required, image_url optional, both URLs HttpUrl
ExampleOk(item) ==
    /\ IsHttpUrl(item.url)
    /\ item.image_url = None \/ IsHttpUrl(item.image_url)

\* Source(**item): title and url required
SourceOk(item) == IsHttpUrl(item.url)

\* a variant that holds the lists to the numbers of items the prompt asks for
FieldOk_with_counts(key, member) ==
    LET v == MemberValue(member)
    IN  CASE key = "query_classification" -> member = None \/ v.type = "str"
          [] key = "summary" -> member # None /\ v.type = "str"
          [] key = "best_practices" ->
                member # None /\ v.type = "list" /\ Len(v.items) \in 5..10
          [] key = "examples" ->
                /\ member # None
                /\ v.type = "list"
                /\ Len(v.items) \in 3..6
                /\ \A i \in 1..Len(v.items) : ExampleOk(v.items[i])
          [] key = "considerations" -> member # None /\ v.type = "dict"
          [] key = "sources" ->
                /\ member # None
                /\ v.type = "list"
                /\ \A i \in 1..Len(v.items) : SourceOk(v.items[i])
          [] OTHER -> TRUE

\* one field of DesignResearchResponse against the member given for it
FieldOk(key, member) ==
    LET v == MemberValue(member)
    IN  CASE key = "query_classification" -> member = None \/ v.type = "str"
          [] key = "summary" -> member # None /\ v.type = "str"
          [] key = "best_practices" -> member # None /\ v.type = "list"
          [] key = "examples" ->
                /\ member # None
                /\ v.type = "list"
                /\ \A i \in 1..Len(v.items) : ExampleOk(v.items[i])
          [] key = "considerations" -> member # None /\ v.type = "dict"
          [] key = "sources" ->
                /\ member # None
                /\ v.type = "list"
                /\ \A i \in 1..Len(v.items) : SourceOk(v.items[i])
          [] OTHER -> TRUE

NoResponse ==
    [summary |-> None, best_practices |-> <<>>, examples |-> <<>>, sources |-> <<>>]

\* a variant that builds the response from any dict without validating it
DesignResearchResponse_unvalidated(parsed) ==
    IF parsed.kind # "dict" THEN [kind |-> "TypeError", response |-> NoResponse]
    ELSE [kind |-> "ok",
          response |-> [summary |-> "summary",
                        best_practices |-> MemberValue(parsed.value["best_practices"]).items,
                        examples |-> MemberValue(parsed.value["examples"]).items,
                        sources |-> MemberValue(parsed.value["sources"]).items]]

\* DesignResearchResponse(**data): the validated model, a ValidationError when
\* a field is missing or ill-typed, a TypeError when data is no dict
DesignResearchResponse(parsed) ==
    IF parsed.kind # "dict" THEN [kind |-> "TypeError", response |-> NoResponse]
    ELSE IF \A key \in ResponseKeys : FieldOk(key, parsed.value[key])
    THEN [kind |-> "ok",
          response |-> [summary |-> "summary",
                        best_practices |-> MemberValue(parsed.value["best_practices"]).items,
                        examples |-> MemberValue(parsed.value["examples"]).items,
                        sources |-> MemberValue(parsed.value["sources"]).items]]
    ELSE [kind |-> "ValidationError", response |-> NoResponse]

(***************************************************************************)
(* agent/query_enhancer.py                                                 *)
(***************************************************************************)

ACCESSIBILITY_KEYWORDS ==
    <<"wcag", "accessibility", "aria", "contrast", "keyboard", "screen reader">>
FEASIBILITY_KEYWORDS ==
    <<"feasibility", "browser support", "performance", "container queries", "supports">>
INSPIRATION_KEYWORDS ==
    <<"examples", "inspiration", "gallery", "show me", "visual">>

\* any(k in q for k in keywords)
AnyKeywordIn(keywords, q) ==
    \E i \in 1..Len(keywords) : Contains(q, keywords[i])

\* a variant that tests the feasibility keywords first
Classify_feasibility_first(q, accessibility, feasibility, inspiration) ==
    IF AnyKeywordIn(feasibility, q) THEN "feasibility"
    ELSE IF AnyKeywordIn(accessibility, q) THEN "accessibility"
    ELSE IF AnyKeywordIn(inspiration, q) THEN "inspiration"
    ELSE "pattern"

\* the chain of tests of classify_query on the lowered question
Classify(q, accessibility, feasibility, inspiration) ==
    IF AnyKeywordIn(accessibility, q) THEN "accessibility"
    ELSE IF AnyKeywordIn(feasibility, q) THEN "feasibility"
    ELSE IF AnyKeywordIn(inspiration, q) THEN "inspiration"
    ELSE "pattern"

\* classify_query(question), the question as its characters
classify_query(question) ==
    Classify(Lower(question), CharsOfAll(ACCESSIBILITY_KEYWORDS),
             CharsOfAll(FEASIBILITY_KEYWORDS), CharsOfAll(INSPIRATION_KEYWORDS))

\* the three prefixes appended for a classification
Templates(classification) ==
    CASE classification = "pattern" ->
            <<"best practices ", "common pitfalls ", "2024 2025 ">>
      [] classification = "accessibility" ->
            <<"wcag ", "aria ", "keyboard navigation ">>
      [] classification = "inspiration" ->
            <<"examples ", "ui inspiration ", "design patterns ">>
      [] classification = "feasibility" ->
            <<"browser support ", "performance ", "mdn ">>
      [] OTHER -> <<>>

\* the order-preserving deduplication loop
RECURSIVE Dedupe(_, _, _)
Dedupe(s, i, deduped) ==
    IF i > Len(s) THEN deduped
    ELSE Dedupe(s, i + 1, IF s[i] \in Range(deduped) THEN deduped ELSE Append(deduped, s[i]))

\* a variant that leaves the question itself out
VariantsOf_templates_only(base, templates) ==
    [i \in 1..Len(templates) |-> templates[i] \o base]

\* variants = [base] + [f"{prefix} {base}" for the three prefixes]
VariantsOf(base, templates) ==
    [i \in 1..(Len(templates) + 1) |-> IF i = 1 THEN base ELSE templates[i - 1] \o base]

\* a variant that does not trim the question
generate_search_variants_untrimmed(question, classification) ==
    Take(Dedupe(VariantsOf(question, CharsOfAll(Templates(classification))), 1, <<>>), 6)

\* generate_search_variants(question, classification), the strings as their
\* characters
generate_search_variants(question, classification) ==
    Take(Dedupe(VariantsOf(Strip(question), CharsOfAll(Templates(classification))),
                1, <<>>), 6)

\* the strings of a list of character sequences
Interned(seqs) == [i \in 1..Len(seqs) |-> StrOf(seqs[i])]

EnhancedAs(question, classification) ==
    [classification |-> classification,
     variants |-> Interned(generate_search_variants(question, classification))]

\* enhance(question)
enhance(question) == EnhancedAs(Chars(question), classify_query(Chars(question)))

(***************************************************************************)
(* utils/config.py                                                         *)
(* The environment maps each variable to its value, None when unset.       *)
(***************************************************************************)

\* get_runtime_options(): _RUNTIME_OPTIONS, <<>> standing for None
get_runtime_options(runtime_options) ==
    IF runtime_options = <<>> THEN <<"GPT-5", FALSE>> ELSE runtime_options

\* _present(key): bool(value and value.strip())
_present(env, key) ==
    /\ env[key] # None
    /\ env[key] # ""
    /\ Strip(Chars(env[key])) # <<>>

\* required_keys_for(llm_provider, enable_brave): the keys, or the ValueError
\* for an unsupported provider
required_keys_for(llm_provider, enable_brave) ==
    IF llm_provider \notin {"GPT-5", "Claude Sonnet 4.5"}
    THEN [kind |-> "ValueError", keys |-> <<>>]
    ELSE [kind |-> "ok",
          keys |-> <<"EXA_API_KEY">>
                   \o (IF llm_provider = "GPT-5" THEN <<"OPENAI_API_KEY">>
                       ELSE <<"ANTHROPIC_API_KEY">>)
                   \o (IF enable_brave THEN <<"BRAVE_API_KEY">> ELSE <<>>)]

\* assert_required_keys(llm_provider, enable_brave): the ValueError naming the
\* missing keys, if any
\* missing = [k for k in required if not _present(k)]
MissingOf(env, keys) == SelectSeq(keys, LAMBDA k : ~ _present(env, k))

\* a variant that reports the first missing key only
AssertPresent_first_only(required, missing) ==
    IF required.kind # "ok" THEN [kind |-> "ValueError", missing |-> <<>>]
    ELSE IF missing # <<>> THEN [kind |-> "ValueError", missing |-> <<missing[1]>>]
    ELSE [kind |-> "ok", missing |-> <<>>]

AssertPresent(required, missing) ==
    IF required.kind # "ok" THEN [kind |-> "ValueError", missing |-> <<>>]
    ELSE IF missing # <<>> THEN [kind |-> "ValueError", missing |-> missing]
    ELSE [kind |-> "ok", missing |-> <<>>]

AssertKeys(env, required) == AssertPresent(required, MissingOf(env, required.keys))

assert_required_keys(env, llm_provider, enable_brave) ==
    AssertKeys(env, required_keys_for(llm_provider, enable_brave))

\* int(str(value).strip()) on the values the model's environment holds
ParsesAsInt(value) == value \in {"2", "3"}
IntOf(value) == IF value = "2" THEN 2 ELSE 3

\* _int_env(key, default)
_int_env(env, key, default) ==
    IF env[key] = None \/ env[key] = "" THEN default
    ELSE IF ParsesAsInt(env[key]) THEN IntOf(env[key])
    ELSE default

get_exa_results_per_variant == 6
get_brave_results_per_variant == 8
get_min_ranked_results(env) == _int_env(env, "MIN_RANKED_RESULTS", 6)
get_max_ranked_results(env) == _int_env(env, "MAX_RANKED_RESULTS", 8)
get_extract_top_k == 10
get_prompt_excerpt_max_chars(env) == _int_env(env, "PROMPT_EXCERPT_MAX_CHARS", 1200)
get_parallel_max_workers == 5

(***************************************************************************)
(* search/exa_search.py, search/brave_search.py                            *)
(***************************************************************************)

\* a variant that turns a failed request into an empty result list
search_exa_swallowing(status, hits, num_results) ==
    [kind |-> "ok",
     results |-> IF status = "200"
                 THEN [i \in 1..Min(num_results, Len(hits)) |->
                          [title |-> "Exa hit", url |-> hits[i]]]
                 ELSE <<>>]

\* search_exa(api_key, query, num_results): the normalized results, or the
\* exception of the failed request; the backend returns at most num_results
search_exa(status, hits, num_results) ==
    IF status = "timeout" \/ RaisesForStatus(status)
    THEN [kind |-> "raise", results |-> <<>>]
    ELSE [kind |-> "ok",
          results |-> [i \in 1..Min(num_results, Len(hits)) |->
                          [title |-> "Exa hit", url |-> hits[i]]]]

\* search_brave(api_key, query, count)
search_brave(status, hits, count) ==
    IF status = "timeout" \/ RaisesForStatus(status)
    THEN [kind |-> "raise", results |-> <<>>]
    ELSE [kind |-> "ok",
          results |-> [i \in 1..Min(count, Len(hits)) |->
                          [title |-> "Brave hit", url |-> hits[i]]]]

SearchStatuses == {"200", "429", "500", "timeout"}

\* What the two backends hold, by the position of the variant asked for.
SearchIndexes ==
    [ many |->
        [exa |-> << <<"https://example.com/c", "https://www.nngroup.com/a",
                      "https://baymard.com/b", "https://alistapart.com/d",
                      "https://W3.org/e", "https://web.dev/f">>,
                    <<"https://lawsofux.com/g", "https://blog.example.org/h",
                      "https://www.nngroup.com/a", "https://baymard.com/b">>,
                    <<"https://smashingmagazine.com/i", "https://developer.mozilla.org/j",
                      "https://example.com/c">>,
                    << >> >>,
         brave |-> << <<"https://baymard.com/b", "https://www.nngroup.com/a">>,
                      <<"https://example.com/c">>,
                      << >>,
                      <<"https://lawsofux.com/g">> >>],
      few |->
        [exa |-> << <<"https://example.com/c", "https://www.nngroup.com/a">>,
                    <<"https://example.com/c", "https://lawsofux.com">>,
                    <<"https://www.nngroup.com/a", "https://baymard.com/b">>,
                    <<"https://example.com/c">> >>,
         brave |-> << <<"https://baymard.com/b">>, << >>, << >>,
                      <<"https://www.nngroup.com/a">> >>],
      nothing |->
        [exa |-> << << >>, << >>, << >>, << >> >>,
         brave |-> << << >>, << >>, << >>, << >> >>] ]

\* the hits a backend holds for the i-th variant
Hits(index, backend, i) ==
    IF i <= Len(SearchIndexes[index][backend]) THEN SearchIndexes[index][backend][i] ELSE <<>>

(***************************************************************************)
(* agent/orchestrator.py                                                   *)
(***************************************************************************)

\* agent/prompts.py, build_prompt, the loop over extracted_sources: per source
\* the title and url of its "- title | url" line and the text of the line
\* appended after it, empty when no content line is appended.  The content
\* is appended as it is: _truncate is defined in the file and called nowhere.
build_prompt(extracted_sources) ==
    [i \in 1..Len(extracted_sources) |->
        [title |-> IF extracted_sources[i].title \in {None, ""} THEN "Untitled"
                   ELSE extracted_sources[i].title,
         url |-> IF extracted_sources[i].url = None THEN "" ELSE extracted_sources[i].url,
         content |-> IF extracted_sources[i].content \in {None, ""} THEN <<>>
                     ELSE Chars(extracted_sources[i].content)]]

\* OpenAILLM() / ClaudeLLM(): the constructor raises without its key
ClientKey(llm_provider) ==
    IF llm_provider = "GPT-5" THEN "OPENAI_API_KEY" ELSE "ANTHROPIC_API_KEY"

\* _select_llm(): the client of the provider configured now
_select_llm(runtime_options, env) ==
    LET llm_provider == get_runtime_options(runtime_options)[1]
    IN  IF llm_provider \notin {"GPT-5", "Claude Sonnet 4.5"}
        THEN [kind |-> "ValueError", provider |-> llm_provider]
        ELSE IF env[ClientKey(llm_provider)] = None \/ env[ClientKey(llm_provider)] = ""
        THEN [kind |-> "ValueError", provider |-> llm_provider]
        ELSE [kind |-> "ok", provider |-> llm_provider]

\* a variant without the floor of the window
RankWindow_no_floor(min_rank, max_rank, max_results) == Min(max_rank, max_results)

\* the slice bound of the ranked list: max(min_rank, min(max_rank, max_results))
RankWindow(min_rank, max_rank, max_results) == Max(min_rank, Min(max_rank, max_results))

\* extract_content_parallel(ranked_results, include_images, max_workers) as a
\* whole: the records in the order the futures completed, then sorted
extract_content_parallel(ranked_results, include_images, scenario, order) ==
    RestoreOrder(ranked_results,
        [k \in 1..Len(ranked_results) |->
            fetch_single(ranked_results[order[k]], include_images, scenario)])

\* one pass of the sequential loop of run: the record, or the exception of
\* fetch_with_jina or extract_primary_image, which nothing catches
\* the record of one pass, or the exception of the first call that raised
PassRecord(r, text, img) ==
    IF text.kind = "raise" THEN [kind |-> "raise", call |-> "fetch_with_jina"]
    ELSE IF img.kind = "raise" THEN [kind |-> "raise", call |-> "extract_primary_image"]
    ELSE [kind |-> "ok",
          record |-> [title |-> r.title, url |-> r.url, content |-> text.content,
                      image_url |-> img.image_url]]

\* the image lookup of the sequential loop
PrimaryImage(url, include_images, at) ==
    IF include_images
    THEN extract_primary_image(url, at.direct, at.proxy, DirectPage(url), ProxyPage(url))
    ELSE [kind |-> "ok", image_url |-> None]

SequentialRecordAt(r, include_images, at) ==
    PassRecord(r, fetch_with_jina(at.text, PageText(r.url)),
               PrimaryImage(r.url, include_images, at))

SequentialRecord(r, include_images, scenario) ==
    SequentialRecordAt(r, include_images, StatusesOf(scenario, r.url))

\* the sequential loop: the records, or the first exception
\* the passes of the sequential loop, one per result
Passes(rs, include_images, scenario) ==
    [i \in 1..Len(rs) |-> SequentialRecord(rs[i], include_images, scenario)]

RECURSIVE CollectPasses(_, _, _)
CollectPasses(passes, i, extracted) ==
    IF i > Len(passes) THEN [kind |-> "ok", extracted |-> extracted, call |-> None]
    ELSE IF passes[i].kind = "raise"
         THEN [kind |-> "raise", extracted |-> extracted, call |-> passes[i].call]
         ELSE CollectPasses(passes, i + 1, Append(extracted, passes[i].record))

SequentialExtract(rs, include_images, scenario) ==
    CollectPasses(Passes(rs, include_images, scenario), 1, <<>>)

\* str(ex.url) of a validated HttpUrl: scheme and host in lower case, "/" for
\* an empty path
NormalisedUrl(cs) ==
    Lower(UrlOrigin(cs))
    \o (IF Len(UrlOrigin(cs)) = Len(cs) THEN <<"/">>
        ELSE SubSeq(cs, Len(UrlOrigin(cs)) + 1, Len(cs)))

HttpUrlStr(url) == StrOf(NormalisedUrl(Chars(url)))

\* url_to_img.get(url): the image of the last extracted record with that url
\* that has one, None when there is none
UrlToImg(extracted, url) ==
    LET at == {i \in 1..Len(extracted) :
                  extracted[i].url = url /\ extracted[i].image_url # None
                                         /\ extracted[i].image_url # ""}
    IN  IF at = {} THEN None
        ELSE extracted[CHOOSE i \in at : \A j \in at : j <= i].image_url

\* the enrichment loop: an example without an image gets the extracted one
\* if not ex.image_url: img = url_to_img.get(str(ex.url)); if img: ex.image_url = img
WithImage(example, img) ==
    IF example.image_url = None /\ img # None
    THEN [example EXCEPT !.image_url = img]
    ELSE example

Enrich(examples, extracted) ==
    [i \in 1..Len(examples) |->
        WithImage(examples[i], UrlToImg(extracted, HttpUrlStr(examples[i].url)))]

\* a variant without the cap at 0.90
StreamFraction_uncapped(accumulated, expected_analysis_chars) ==
    700 + (accumulated * 200) \div expected_analysis_chars

\* min(0.90, 0.70 + (accumulated / expected_analysis_chars) * 0.20), in
\* thousandths
StreamFraction(accumulated, expected_analysis_chars) ==
    Min(900, 700 + (accumulated * 200) \div expected_analysis_chars)

(***************************************************************************)
(* evaluation/evaluator.py                                                 *)
(***************************************************************************)

\* os.getenv(key, default) of a variable that holds value, None when unset
getenv(value, default) == IF value = None THEN default ELSE value

\* what both functions do once the provider is settled: the ValueError for a
\* provider that is neither of the two, else the request to that provider
EvaluateWith(evaluator_provider, status) ==
    IF evaluator_provider \notin {"GPT-5", "Claude Sonnet 4.5"}
    THEN [kind |-> "ValueError", provider |-> evaluator_provider]
    ELSE IF status = "200" THEN [kind |-> "ok", provider |-> evaluator_provider]
    ELSE [kind |-> "Exception", provider |-> evaluator_provider]

\* evaluate_response(user_query, response, evaluator_provider), lines 160-188
evaluate_response(evaluator_provider, env_value, status) ==
    IF evaluator_provider = None
    THEN EvaluateWith(StrOf(Lower(Chars(getenv(env_value, "openai")))), status)
    ELSE EvaluateWith(evaluator_provider, status)

\* evaluate_response_stream(user_query, response, evaluator_provider), run
\* to its end by the caller, lines 200-208
evaluate_response_stream(evaluator_provider, env_value, status) ==
    IF evaluator_provider = None
    THEN EvaluateWith(StrOf(Lower(Chars(getenv(env_value, "GPT-5")))), status)
    ELSE EvaluateWith(evaluator_provider, status)

(***************************************************************************)
(* State                                                                   *)
(***************************************************************************)
VARIABLES
    \* dedup_and_rank applied to a list of candidates
    candidates,         \* the argument
    rank_out,           \* the returned list
    rank_pc,            \* "input" | "done"
    \* one call of extract_content_parallel
    x_in,               \* ranked_results
    x_images,           \* include_images
    x_workers,          \* max_workers
    x_submitted,        \* how many tasks executor.submit has queued
    x_task,             \* per task: "new" | "queued" | "running" | "done" | "collected"
    x_future,           \* per task: the record its future holds
    x_net,              \* what the requests for each page meet during the call
    x_extracted,        \* the list, in as_completed order
    x_ret,              \* the returned list
    x_pc,               \* "pool" | "returned"
    \* the process and the arguments of one call of orchestrator.run
    RUNTIME_OPTIONS,    \* config._RUNTIME_OPTIONS: <<>> (None) or <<llm_provider, enable_brave>>
    env,                \* os.environ
    request,            \* the AgentRequest
    parallel_fetch,
    has_cb,             \* progress_cb is not None
    expected_analysis_chars,
    search_index,       \* what the search backends hold
    llm_answers,        \* the texts the LLM backend may answer with
    \* the locals of run and what it did
    run_pc,
    llm_provider,
    enable_brave,
    classification,
    variants,
    vi,                 \* the position of the loop over variants
    results,
    ranked,
    run_net,            \* what the extraction's requests met
    extracted,
    stream_rest,        \* what the open stream has yet to yield
    raw,
    accumulated,
    data,               \* the value coerce_json_object returned
    response,
    error,              \* the exception run raised
    calls,              \* the requests sent, in order (history)
    progress,           \* the events passed to progress_cb, in order (history)
    prompt,             \* what build_prompt put under "Source content excerpts"
    llm,                \* the provider of the client _select_llm built
    \* one call of a function of its arguments alone
    call_args,          \* the arguments
    call_ret,           \* the returned value
    call_pc             \* "input" | "done"

rankVars == <<candidates, rank_out, rank_pc>>
extractVars == <<x_in, x_images, x_workers, x_submitted, x_task, x_future, x_net,
                 x_extracted, x_ret, x_pc>>
argVars == <<RUNTIME_OPTIONS, env, request, parallel_fetch, has_cb,
             expected_analysis_chars, search_index, llm_answers>>
localVars == <<run_pc, llm_provider, enable_brave, classification, variants, vi, results,
               ranked, run_net, extracted, stream_rest, raw, accumulated, data, response,
               error, calls, progress, prompt, llm>>
runVars == <<argVars, localVars>>
callVars == <<call_args, call_ret, call_pc>>
vars == <<rankVars, extractVars, runVars, callVars>>

(***************************************************************************)
(* dedup_and_rank as a program of its own: any list of candidates          *)
(***************************************************************************)

\* the longest candidate list drawn
MaxCandidates == 3

RankUrls ==
    { "https://www.nngroup.com/a", "https://baymard.com/b",
      "https://example.com/c", "https://alistapart.com/d",
      "https://W3.org/e", "https://w3.org/e",
      "https://www.nngroup.com:443/a", "https://example.com?ref=w3.org", None }

RankTitles == {"t1", "t2"}

CandidateRecords == [title : RankTitles, url : RankUrls]

CandidateLists ==
    UNION {[1..n -> CandidateRecords] : n \in 0..MaxCandidates}

RankIdle ==
    /\ candidates = <<>>
    /\ rank_out = <<>>
    /\ rank_pc = "idle"

ApplyRank ==
    /\ rank_pc = "input"
    /\ rank_out' = dedup_and_rank(candidates)
    /\ rank_pc' = "done"
    /\ UNCHANGED <<candidates, extractVars, runVars, callVars>>

NextRank == ApplyRank

(***************************************************************************)
(* extract_content_parallel as a program of its own: the executor's        *)
(* threads run fetch_single while the caller submits and then collects     *)
(***************************************************************************)

\* how many of the pool's results a call is given at most
MaxExtract == 3

ExtractPool ==
    << [title |-> "A", url |-> "https://www.nngroup.com/a", score |-> 30],
       [title |-> "B", url |-> "https://baymard.com/b", score |-> 25],
       [title |-> "C", url |-> "https://example.com/c", score |-> 0],
       [title |-> "D", url |-> "https://alistapart.com/d", score |-> 20] >>

Reverse(s) == [i \in 1..Len(s) |-> s[Len(s) + 1 - i]]

\* ranked lists with distinct URLs: the prefixes of the pool, and the longest
\* one reversed
ExtractInputs ==
    {Take(ExtractPool, n) : n \in 0..MaxExtract}
        \cup {Reverse(Take(ExtractPool, MaxExtract))}

NoRecord == [title |-> None, url |-> None, content |-> None, image_url |-> None,
             image_source |-> "none", image_dims |-> <<{}, {}>>]

ExtractIdle ==
    /\ x_in = <<>>
    /\ x_images = FALSE
    /\ x_workers = 0
    /\ x_submitted = 0
    /\ x_task = <<>>
    /\ x_future = <<>>
    /\ x_net = "served"
    /\ x_extracted = <<>>
    /\ x_ret = <<>>
    /\ x_pc = "idle"

ExtractStart ==
    /\ x_in \in ExtractInputs
    /\ x_images \in BOOLEAN
    /\ x_workers \in {2, 5}
    /\ x_submitted = 0
    /\ x_task = [i \in 1..Len(x_in) |-> "new"]
    /\ x_future = [i \in 1..Len(x_in) |-> NoRecord]
    /\ x_net \in NetNames
    /\ x_extracted = <<>>
    /\ x_ret = <<>>
    /\ x_pc = "pool"

Running == {i \in 1..Len(x_in) : x_task[i] = "running"}

\* executor.submit(fetch_single, result), in the order of ranked_results
Submit ==
    /\ x_pc = "pool"
    /\ x_submitted < Len(x_in)
    /\ x_submitted' = x_submitted + 1
    /\ x_task' = [x_task EXCEPT ![x_submitted + 1] = "queued"]
    /\ UNCHANGED <<x_in, x_images, x_workers, x_future, x_net, x_extracted, x_ret, x_pc, rankVars, runVars, callVars>>

\* a variant whose executor starts a thread for every queued work item
TaskStart_unbounded(i) ==
    /\ x_pc = "pool"
    /\ x_task[i] = "queued"
    /\ x_task' = [x_task EXCEPT ![i] = "running"]
    /\ UNCHANGED <<x_in, x_images, x_workers, x_submitted, x_future, x_net, x_extracted, x_ret, x_pc, rankVars, runVars, callVars>>

\* a free thread takes the oldest queued work item
TaskStart(i) ==
    /\ x_pc = "pool"
    /\ x_task[i] = "queued"
    /\ \A j \in 1..(i - 1) : x_task[j] # "queued"
    /\ Cardinality(Running) < x_workers
    /\ x_task' = [x_task EXCEPT ![i] = "running"]
    /\ UNCHANGED <<x_in, x_images, x_workers, x_submitted, x_future, x_net, x_extracted, x_ret, x_pc, rankVars, runVars, callVars>>

\* fetch_single runs to its end with what its requests meet
TaskFinish(i) ==
    /\ x_pc = "pool"
    /\ x_task[i] = "running"
    /\ x_future' = [x_future EXCEPT ![i] = fetch_single(x_in[i], x_images, x_net)]
    /\ x_task' = [x_task EXCEPT ![i] = "done"]
    /\ UNCHANGED <<x_in, x_images, x_workers, x_submitted, x_net, x_extracted, x_ret, x_pc, rankVars, runVars, callVars>>

\* as_completed yields a finished future and its record is appended
Collect(i) ==
    /\ x_pc = "pool"
    /\ x_submitted = Len(x_in)
    /\ x_task[i] = "done"
    /\ x_extracted' = Append(x_extracted, x_future[i])
    /\ x_task' = [x_task EXCEPT ![i] = "collected"]
    /\ UNCHANGED <<x_in, x_images, x_workers, x_submitted, x_future, x_net, x_ret, x_pc, rankVars, runVars, callVars>>

\* a variant that leaves the with block without waiting for the futures
Return_without_join ==
    /\ x_pc = "pool"
    /\ x_submitted = Len(x_in)
    /\ x_ret' = RestoreOrder(x_in, x_extracted)
    /\ x_pc' = "returned"
    /\ UNCHANGED <<x_in, x_images, x_workers, x_submitted, x_task, x_future, x_net, x_extracted, rankVars, runVars, callVars>>

\* every future was yielded: the pool shuts down, the list is sorted and returned
Return ==
    /\ x_pc = "pool"
    /\ x_submitted = Len(x_in)
    /\ \A i \in 1..Len(x_in) : x_task[i] = "collected"
    /\ x_ret' = RestoreOrder(x_in, x_extracted)
    /\ x_pc' = "returned"
    /\ UNCHANGED <<x_in, x_images, x_workers, x_submitted, x_task, x_future, x_net, x_extracted, rankVars, runVars, callVars>>

NextExtract ==
    \/ Submit
    \/ \E i \in 1..Len(x_in) : TaskStart(i)
    \/ \E i \in 1..Len(x_in) : TaskFinish(i)
    \/ \E i \in 1..Len(x_in) : Collect(i)
    \/ Return

(***************************************************************************)
(* orchestrator.run, stage by stage                                        *)
(***************************************************************************)

\* how many characters one streamed fragment holds at most
ChunkLen == 6

\* the texts the LLM backend answers with
Answers ==
    [ valid |-> <<"{", "S", ",", "B", ",", "E", ",", "C", ",", "R", "}">>,
      in_prose |->
        <<"x", "x", "\n", "{", "S", ",", "B", ",", "E", ",", "C", ",", "R", "}", "\n", "x">>,
      trailing_comma |->
        <<"{", "S", ",", "B", ",", "E", ",", "C", ",", "R", ",", "\n", "\n", "}">>,
      cut_short |-> <<"{", "S", ",", "B">>,
      broken_in_prose |-> <<"x", "{", "S", ",", ",", "B", "}", "x">>,
      no_summary |-> <<"{", "B", ",", "E", ",", "C", ",", "R", "}">>,
      relative_url |-> <<"{", "S", ",", "B", ",", "e", ",", "C", ",", "R", "}">>,
      bad_types |-> <<"{", "S", ",", "B", ",", "E", ",", "c", ",", "r", "}">>,
      short_lists |->
        <<"{", "Q", ",", "S", ",", "b", ",", "F", ",", "C", ",", "R", ",", "Z", "}">>,
      long_lists |-> <<"{", "S", ",", "L", ",", "G", ",", "C", ",", "R", "}">>,
      list |-> <<"[", "]">>,
      empty |-> << >> ]

AllAnswers == {Answers[k] : k \in DOMAIN Answers}

FewAnswers == {Answers.valid, Answers.cut_short}

LlmStatuses == {"200", "500", "timeout"}

NoError == [type |-> None, stage |-> None, missing |-> <<>>, doc |-> <<>>]
NoData == [kind |-> None, value |-> EmptyDict, doc |-> <<>>]

RunIdle ==
    /\ RUNTIME_OPTIONS = <<>>
    /\ env = [k \in {} |-> None]
    /\ request = [question |-> None, max_results |-> 0, include_images |-> FALSE]
    /\ parallel_fetch = FALSE
    /\ has_cb = FALSE
    /\ expected_analysis_chars = 0
    /\ search_index = "nothing"
    /\ llm_answers = {}
    /\ run_pc = "idle"
    /\ llm_provider = None
    /\ enable_brave = FALSE
    /\ classification = None
    /\ variants = <<>>
    /\ vi = 0
    /\ results = <<>>
    /\ ranked = <<>>
    /\ run_net = "served"
    /\ extracted = <<>>
    /\ stream_rest = <<>>
    /\ raw = <<>>
    /\ accumulated = 0
    /\ data = NoData
    /\ response = NoResponse
    /\ error = NoError
    /\ calls = <<>>
    /\ progress = <<>>
    /\ prompt = <<>>
    /\ llm = None

\* the locals before run starts
RunLocalsStart ==
    /\ run_pc = "start"
    /\ llm_provider = None
    /\ enable_brave = FALSE
    /\ classification = None
    /\ variants = <<>>
    /\ vi = 0
    /\ results = <<>>
    /\ ranked = <<>>
    /\ run_net = "served"
    /\ extracted = <<>>
    /\ stream_rest = <<>>
    /\ raw = <<>>
    /\ accumulated = 0
    /\ data = NoData
    /\ response = NoResponse
    /\ error = NoError
    /\ calls = <<>>
    /\ progress = <<>>
    /\ prompt = <<>>
    /\ llm = None

\* progress_cb(stage, fraction) inside try/except: the event is passed when a
\* callback was given, and an exception of the callback changes nothing
Report(log, stage, permille) == IF has_cb THEN Append(log, <<stage, permille>>) ELSE log

Fail(type, stage, missing, doc) ==
    /\ run_pc' = "failed"
    /\ error' = [type |-> type, stage |-> stage, missing |-> missing, doc |-> doc]

\* lines 62-76: the pre-flight check of the keys, then enhance
Preflight ==
    /\ run_pc = "start"
    /\ LET options == get_runtime_options(RUNTIME_OPTIONS)
           checked == assert_required_keys(env, options[1], options[2])
       IN  /\ llm_provider' = options[1]
           /\ enable_brave' = options[2]
           /\ IF checked.kind # "ok"
              THEN /\ Fail("ValueError", "preflight", checked.missing, <<>>)
                   /\ UNCHANGED <<classification, variants, vi, progress>>
              ELSE /\ classification' = enhance(request.question).classification
                   /\ variants' = enhance(request.question).variants
                   /\ vi' = 1
                   /\ progress' = Report(progress, "search", 50)
                   /\ run_pc' = "search_exa"
                   /\ UNCHANGED error
    /\ UNCHANGED <<results, ranked, run_net, extracted, stream_rest, raw, accumulated, data,
                   response, calls, prompt, llm, argVars, rankVars, extractVars, callVars>>

\* a variant that goes on to Brave whatever the options say
AfterExa_brave_regardless(i, n, brave) ==
    IF i < n THEN "search_exa" ELSE "search_brave"

\* lines 89-95: what follows the i-th of the n passes of the loop over Exa
AfterExa(i, n, brave) ==
    IF i < n THEN "search_exa"
    ELSE IF brave THEN "search_brave" ELSE "rank"

\* lines 88-92: one pass of the loop over the variants, Exa
SearchExa ==
    /\ run_pc = "search_exa"
    /\ \E status \in SearchStatuses :
          LET exa_per_variant == Min(get_exa_results_per_variant, request.max_results)
              got == search_exa(status, Hits(search_index, "exa", vi), exa_per_variant)
          IN  /\ calls' = Append(calls, [api |-> "exa", arg |-> variants[vi], status |-> status,
                                         got |-> got.results])
              /\ IF got.kind = "raise"
                 THEN /\ Fail("HTTPError", "search", <<>>, <<>>)
                      /\ UNCHANGED <<results, vi>>
                 ELSE /\ results' = results \o got.results
                      /\ vi' = IF vi < Len(variants) THEN vi + 1 ELSE 1
                      /\ run_pc' = AfterExa(vi, Len(variants), enable_brave)
                      /\ UNCHANGED error
    /\ UNCHANGED <<llm_provider, enable_brave, classification, variants, ranked, run_net,
                   extracted, stream_rest, raw, accumulated, data, response, progress,
                   prompt, llm, argVars, rankVars, extractVars, callVars>>

\* lines 96-102: one pass of the loop over the variants, Brave
SearchBrave ==
    /\ run_pc = "search_brave"
    /\ \E status \in SearchStatuses :
          LET brave_per_variant == Min(get_brave_results_per_variant, request.max_results)
              got == search_brave(status, Hits(search_index, "brave", vi), brave_per_variant)
          IN  /\ calls' = Append(calls, [api |-> "brave", arg |-> variants[vi], status |-> status,
                                         got |-> got.results])
              /\ IF got.kind = "raise"
                 THEN /\ Fail("HTTPError", "search", <<>>, <<>>)
                      /\ UNCHANGED <<results, vi>>
                 ELSE /\ results' = results \o got.results
                      /\ vi' = IF vi < Len(variants) THEN vi + 1 ELSE 1
                      /\ run_pc' = IF vi < Len(variants) THEN "search_brave" ELSE "rank"
                      /\ UNCHANGED error
    /\ UNCHANGED <<llm_provider, enable_brave, classification, variants, ranked, run_net,
                   extracted, stream_rest, raw, accumulated, data, response, progress,
                   prompt, llm, argVars, rankVars, extractVars, callVars>>

\* lines 107-117: dedup, rank and cut to the window
Rank ==
    /\ run_pc = "rank"
    /\ ranked' = Take(dedup_and_rank(results),
                      RankWindow(get_min_ranked_results(env), get_max_ranked_results(env),
                                 request.max_results))
    /\ progress' = Report(progress, "extract", 330)
    /\ run_pc' = "extract"
    /\ UNCHANGED <<llm_provider, enable_brave, classification, variants, vi, results, run_net,
                   extracted, stream_rest, raw, accumulated, data, response, error, calls,
                   prompt, llm, argVars, rankVars, extractVars, callVars>>

\* the requests of the extraction stage for the given results, in their order
FetchCalls(rs, scenario) ==
    [i \in 1..Len(rs) |->
        [api |-> "jina", arg |-> rs[i].url, status |-> NetScenarios[scenario][rs[i].url].text]]

RunNetNames == {"served", "refused", "a_text_fails", "b_gone"}

\* lines 119-145: the extraction stage, parallel or sequential
Extract ==
    /\ run_pc = "extract"
    /\ \E scenario \in RunNetNames :
          LET top == Take(ranked, get_extract_top_k)
              seq == SequentialExtract(top, request.include_images, scenario)
          IN  /\ run_net' = scenario
              /\ IF parallel_fetch
                 THEN /\ \E order \in {[k \in 1..Len(top) |-> k],
                                       [k \in 1..Len(top) |-> Len(top) + 1 - k]} :
                            extracted' = extract_content_parallel(
                                            top, request.include_images, scenario, order)
                      /\ calls' = calls \o FetchCalls(top, scenario)
                      /\ progress' = Report(progress, "analysis", 660)
                      /\ run_pc' = "select_llm"
                      /\ UNCHANGED error
                 ELSE /\ extracted' = seq.extracted
                      /\ IF seq.kind = "raise"
                         THEN /\ calls' = calls \o FetchCalls(
                                            Take(top, Len(seq.extracted) + 1), scenario)
                              /\ Fail("HTTPError", "extract", <<>>, <<>>)
                              /\ UNCHANGED progress
                         ELSE /\ calls' = calls \o FetchCalls(top, scenario)
                              /\ progress' = Report(progress, "analysis", 660)
                              /\ run_pc' = "select_llm"
                              /\ UNCHANGED error
    /\ UNCHANGED <<llm_provider, enable_brave, classification, variants, vi, results, ranked,
                   stream_rest, raw, accumulated, data, response,
                   prompt, llm, argVars, rankVars, extractVars, callVars>>

\* lines 148-157: build the prompt, select the client
SelectLlm ==
    /\ run_pc = "select_llm"
    /\ prompt' = build_prompt(extracted)
    /\ LET client == _select_llm(RUNTIME_OPTIONS, env)
       IN  IF client.kind # "ok"
           THEN /\ Fail("ValueError", "select_llm", <<>>, <<>>)
                /\ UNCHANGED <<progress, llm>>
           ELSE /\ llm' = client.provider
                /\ run_pc' = IF has_cb THEN "stream_open" ELSE "synthesize"
                /\ progress' = Report(progress, "analysis", 700)
                /\ UNCHANGED error
    /\ UNCHANGED <<llm_provider, enable_brave, classification, variants, vi, results, ranked,
                   run_net, extracted, stream_rest, raw, accumulated, data, response, calls,
                   argVars, rankVars, extractVars, callVars>>

\* llm.synthesize(prompt): the text, or the exception of the request
synthesize(status, answer) ==
    IF status = "200" THEN [kind |-> "ok", text |-> answer]
    ELSE [kind |-> "raise", text |-> <<>>]

\* a variant that repeats a failed blocking call once
Fallback_retrying(status, answer) ==
    [calls |-> IF status = "200"
               THEN <<[api |-> "llm", arg |-> "synthesize", status |-> status]>>
               ELSE <<[api |-> "llm", arg |-> "synthesize", status |-> status],
                      [api |-> "llm", arg |-> "synthesize", status |-> "200"]>>,
     result |-> synthesize("200", answer)]

\* line 174, the except branch of the streaming loop: one blocking call,
\* whose text replaces raw and whose exception propagates
Fallback(status, answer) ==
    [calls |-> <<[api |-> "llm", arg |-> "synthesize", status |-> status]>>,
     result |-> synthesize(status, answer)]

\* a variant that keeps the fragments received before the failure
RawAfterFallback_appending(raw_so_far, text) == raw_so_far \o text

\* line 174: raw = llm.synthesize(prompt) rebinds raw, whatever it held
RawAfterFallback(raw_so_far, text) == text

\* line 160: the streaming request is sent and answers
StreamOpen ==
    /\ run_pc = "stream_open"
    /\ \E answer \in llm_answers :
          /\ stream_rest' = answer
          /\ calls' = Append(calls, [api |-> "llm", arg |-> "synthesize_stream",
                                     status |-> "200"])
          /\ run_pc' = "stream"
    /\ UNCHANGED <<llm_provider, enable_brave, classification, variants, vi, results, ranked,
                   run_net, extracted, raw, accumulated, data, response, error, progress,
                   prompt, llm, argVars, rankVars, extractVars, callVars>>

\* lines 160-170: one fragment arrives
StreamChunk ==
    /\ run_pc = "stream"
    /\ stream_rest # <<>>
    /\ LET chunk == Take(stream_rest, ChunkLen)
       IN  /\ raw' = raw \o chunk
           /\ accumulated' = accumulated + Len(chunk)
           /\ stream_rest' = SubSeq(stream_rest, Len(chunk) + 1, Len(stream_rest))
           /\ progress' = IF expected_analysis_chars > 0
                          THEN Report(progress, "analysis",
                                      StreamFraction(accumulated + Len(chunk),
                                                     expected_analysis_chars))
                          ELSE progress
    /\ UNCHANGED <<run_pc, llm_provider, enable_brave, classification, variants, vi, results,
                   ranked, run_net, extracted, data, response, error, calls,
                   prompt, llm, argVars, rankVars, extractVars, callVars>>

\* the stream is exhausted
StreamEnd ==
    /\ run_pc = "stream"
    /\ stream_rest = <<>>
    /\ run_pc' = "coerce"
    /\ UNCHANGED <<llm_provider, enable_brave, classification, variants, vi, results, ranked,
                   run_net, extracted, stream_rest, raw, accumulated, data, response, error,
                   calls, progress, prompt, llm, argVars, rankVars, extractVars, callVars>>

\* lines 171-174: the streaming call raises, when it is sent or at any
\* fragment, and run falls back to the blocking call
StreamFail ==
    /\ run_pc \in {"stream_open", "stream"}
    /\ \E status \in LlmStatuses, answer \in llm_answers :
          LET fb == Fallback(status, answer)
              failed_call == [api |-> "llm", arg |-> "synthesize_stream", status |-> "500"]
          IN  /\ calls' = (IF run_pc = "stream_open" THEN Append(calls, failed_call)
                           ELSE [calls EXCEPT ![Len(calls)] = failed_call]) \o fb.calls
              /\ IF fb.result.kind = "raise"
                 THEN /\ Fail("APIError", "synthesize", <<>>, <<>>)
                      /\ UNCHANGED raw
                 ELSE /\ raw' = RawAfterFallback(raw, fb.result.text)
                      /\ run_pc' = "coerce"
                      /\ UNCHANGED error
    /\ stream_rest' = <<>>
    /\ UNCHANGED <<llm_provider, enable_brave, classification, variants, vi, results, ranked,
                   run_net, extracted, accumulated, data, response, progress,
                   prompt, llm, argVars, rankVars, extractVars, callVars>>

\* line 176: no callback, the blocking call
Synthesize ==
    /\ run_pc = "synthesize"
    /\ \E status \in LlmStatuses, answer \in llm_answers :
          LET got == synthesize(status, answer)
          IN  /\ calls' = Append(calls, [api |-> "llm", arg |-> "synthesize", status |-> status])
              /\ IF got.kind = "raise"
                 THEN /\ Fail("APIError", "synthesize", <<>>, <<>>)
                      /\ UNCHANGED raw
                 ELSE /\ raw' = got.text
                      /\ run_pc' = "coerce"
                      /\ UNCHANGED error
    /\ UNCHANGED <<llm_provider, enable_brave, classification, variants, vi, results, ranked,
                   run_net, extracted, stream_rest, accumulated, data, response, progress,
                   prompt, llm, argVars, rankVars, extractVars, callVars>>

\* line 188: data = coerce_json_object(raw)
Coerce ==
    /\ run_pc = "coerce"
    /\ LET got == coerce_json_object(raw)
       IN  IF got.kind = "JSONDecodeError"
           THEN /\ Fail("JSONDecodeError", "coerce", <<>>, got.doc)
                /\ UNCHANGED data
           ELSE /\ data' = got
                /\ run_pc' = "validate"
                /\ UNCHANGED error
    /\ UNCHANGED <<llm_provider, enable_brave, classification, variants, vi, results, ranked,
                   run_net, extracted, stream_rest, raw, accumulated, response, calls, progress,
                   prompt, llm, argVars, rankVars, extractVars, callVars>>

\* lines 191-196: response = DesignResearchResponse(**data)
Validate ==
    /\ run_pc = "validate"
    /\ LET got == DesignResearchResponse(data)
       IN  IF got.kind # "ok"
           THEN /\ Fail(got.kind, "validate", <<>>, <<>>)
                /\ UNCHANGED <<response, progress>>
           ELSE /\ response' = got.response
                /\ progress' = Report(progress, "analysis", 900)
                /\ run_pc' = "enrich"
                /\ UNCHANGED error
    /\ UNCHANGED <<llm_provider, enable_brave, classification, variants, vi, results, ranked,
                   run_net, extracted, stream_rest, raw, accumulated, data, calls,
                   prompt, llm, argVars, rankVars, extractVars, callVars>>

\* lines 208-230: back-fill the example images, report done, return
Complete ==
    /\ run_pc = "enrich"
    /\ response' = IF request.include_images /\ response.examples # <<>>
                   THEN [response EXCEPT !.examples = Enrich(response.examples, extracted)]
                   ELSE response
    /\ progress' = Report(progress, "done", 1000)
    /\ run_pc' = "returned"
    /\ UNCHANGED <<llm_provider, enable_brave, classification, variants, vi, results, ranked,
                   run_net, extracted, stream_rest, raw, accumulated, data, error, calls,
                   prompt, llm, argVars, rankVars, extractVars, callVars>>

NextRun ==
    \/ Preflight
    \/ SearchExa
    \/ SearchBrave
    \/ Rank
    \/ Extract
    \/ SelectLlm
    \/ StreamOpen
    \/ StreamChunk
    \/ StreamEnd
    \/ StreamFail
    \/ Synthesize
    \/ Coerce
    \/ Validate
    \/ Complete

(***************************************************************************)
(* The runs the specifications start from                                 *)
(***************************************************************************)

AllKeysSet ==
    [EXA_API_KEY |-> "key", OPENAI_API_KEY |-> "key", ANTHROPIC_API_KEY |-> "key",
     BRAVE_API_KEY |-> "key", MIN_RANKED_RESULTS |-> None, MAX_RANKED_RESULTS |-> None,
     PROMPT_EXCERPT_MAX_CHARS |-> None]

\* environments with keys unset, empty or blank
KeyEnvs ==
    { AllKeysSet,
      [AllKeysSet EXCEPT !.EXA_API_KEY = None],
      [AllKeysSet EXCEPT !.OPENAI_API_KEY = " "],
      [AllKeysSet EXCEPT !.ANTHROPIC_API_KEY = None],
      [AllKeysSet EXCEPT !.BRAVE_API_KEY = ""],
      [AllKeysSet EXCEPT !.EXA_API_KEY = " ", !.OPENAI_API_KEY = None,
                         !.BRAVE_API_KEY = None],
      [AllKeysSet EXCEPT !.EXA_API_KEY = None, !.OPENAI_API_KEY = None,
                         !.ANTHROPIC_API_KEY = None, !.BRAVE_API_KEY = None] }

\* environments that set the window of the ranked list or the length of an
\* excerpt
WindowEnvs ==
    { [AllKeysSet EXCEPT !.MIN_RANKED_RESULTS = "2", !.MAX_RANKED_RESULTS = "3"],
      [AllKeysSet EXCEPT !.PROMPT_EXCERPT_MAX_CHARS = "3"],
      [AllKeysSet EXCEPT !.MIN_RANKED_RESULTS = "abc", !.MAX_RANKED_RESULTS = "3"] }

OptionChoices ==
    { << >>, <<"GPT-5", TRUE>>, <<"Claude Sonnet 4.5", TRUE>>, <<"Gemini", FALSE>> }

Requests ==
    [question : {"mobile navigation"}, max_results : {1, 7, 20}, include_images : BOOLEAN]

\* runs over many configurations and requests, the LLM answering with one of
\* two texts
RunStartWide ==
    /\ \/ RUNTIME_OPTIONS \in OptionChoices /\ env \in KeyEnvs
       \/ RUNTIME_OPTIONS = << >> /\ env \in WindowEnvs
    /\ request \in Requests
    /\ parallel_fetch \in BOOLEAN
    /\ has_cb \in BOOLEAN
    /\ expected_analysis_chars = 20
    /\ search_index \in DOMAIN SearchIndexes
    /\ llm_answers = FewAnswers
    /\ RunLocalsStart

\* runs over few configurations, the LLM answering with any of the texts
RunStartSynth ==
    /\ \/ RUNTIME_OPTIONS \in {<< >>, <<"Claude Sonnet 4.5", TRUE>>} /\ env = AllKeysSet
       \/ RUNTIME_OPTIONS = << >> /\ env = [AllKeysSet EXCEPT !.EXA_API_KEY = None]
    /\ request \in [question : {" ARIA menus "}, max_results : {7}, include_images : BOOLEAN]
    /\ parallel_fetch \in BOOLEAN
    /\ has_cb \in BOOLEAN
    /\ expected_analysis_chars = 20
    /\ search_index \in {"few"}
    /\ llm_answers = AllAnswers
    /\ RunLocalsStart

\* the arguments set_runtime_options is called with
SetChoices ==
    {<<"GPT-5", FALSE>>, <<"Claude Sonnet 4.5", FALSE>>, <<"Claude Sonnet 4.5", TRUE>>,
     <<"Gemini", FALSE>>}

\* utils/config.py, set_runtime_options(llm_provider, enable_brave), called
\* by another session of the application while a run is in progress: the
\* module-level pair is rebound
SetRuntimeOptions ==
    /\ run_pc \notin {"idle", "returned", "failed"}
    /\ \E options \in SetChoices :
          /\ options # RUNTIME_OPTIONS
          /\ RUNTIME_OPTIONS' = options
    /\ UNCHANGED <<env, request, parallel_fetch, has_cb, expected_analysis_chars,
                   search_index, llm_answers, localVars, rankVars, extractVars, callVars>>

\* runs during which the options may be set again
RunStartOptions ==
    /\ RUNTIME_OPTIONS \in {<< >>, <<"Claude Sonnet 4.5", TRUE>>}
    /\ env \in {AllKeysSet, [AllKeysSet EXCEPT !.ANTHROPIC_API_KEY = None]}
    /\ request = [question |-> " ARIA menus ", max_results |-> 7, include_images |-> FALSE]
    /\ parallel_fetch = TRUE
    /\ has_cb \in BOOLEAN
    /\ expected_analysis_chars = 20
    /\ search_index = "few"
    /\ llm_answers = FewAnswers
    /\ RunLocalsStart

NextOptions ==
    \/ NextRun
    \/ SetRuntimeOptions

(***************************************************************************)
(* run with the extraction stage step by step: the call of                 *)
(* extract_content_parallel is the program of the pool above               *)
(***************************************************************************)

\* lines 120-126: run calls extract_content_parallel
ExtractCall ==
    /\ run_pc = "extract"
    /\ parallel_fetch
    /\ x_pc = "idle"
    /\ \E scenario \in RunNetNames :
          /\ run_net' = scenario
          /\ x_net' = scenario
    /\ x_in' = Take(ranked, get_extract_top_k)
    /\ x_images' = request.include_images
    /\ x_workers' = get_parallel_max_workers
    /\ x_submitted' = 0
    /\ x_task' = [i \in 1..Min(Len(ranked), get_extract_top_k) |-> "new"]
    /\ x_future' = [i \in 1..Min(Len(ranked), get_extract_top_k) |-> NoRecord]
    /\ x_extracted' = <<>>
    /\ x_ret' = <<>>
    /\ x_pc' = "pool"
    /\ run_pc' = "extracting"
    /\ UNCHANGED <<llm_provider, enable_brave, classification, variants, vi, results, ranked,
                   extracted, stream_rest, raw, accumulated, data, response, error, calls,
                   progress, prompt, llm, argVars, rankVars, callVars>>

\* lines 120-145: the call returned; its list is bound to extracted
ExtractJoin ==
    /\ run_pc = "extracting"
    /\ x_pc = "returned"
    /\ extracted' = x_ret
    /\ calls' = calls \o FetchCalls(x_in, x_net)
    /\ progress' = Report(progress, "analysis", 660)
    /\ run_pc' = "select_llm"
    /\ UNCHANGED <<llm_provider, enable_brave, classification, variants, vi, results, ranked,
                   run_net, stream_rest, raw, accumulated, data, response, error,
                   prompt, llm, argVars, rankVars, extractVars, callVars>>

\* lines 127-138: the sequential loop
ExtractSequential ==
    /\ ~ parallel_fetch
    /\ Extract

\* runs whose ranked list is cut to three results
RunStartStages ==
    /\ RUNTIME_OPTIONS \in {<< >>, <<"Claude Sonnet 4.5", TRUE>>}
    /\ env = [AllKeysSet EXCEPT !.MIN_RANKED_RESULTS = "2", !.MAX_RANKED_RESULTS = "3"]
    /\ request \in [question : {" ARIA menus "}, max_results : {7}, include_images : BOOLEAN]
    /\ parallel_fetch \in BOOLEAN
    /\ has_cb \in BOOLEAN
    /\ expected_analysis_chars \in {0, 5, 20}
    /\ search_index = "few"
    /\ llm_answers = FewAnswers
    /\ RunLocalsStart

NextStages ==
    \/ Preflight
    \/ SearchExa
    \/ SearchBrave
    \/ Rank
    \/ ExtractCall
    \/ Submit
    \/ \E i \in 1..Len(x_in) : TaskStart(i)
    \/ \E i \in 1..Len(x_in) : TaskFinish(i)
    \/ \E i \in 1..Len(x_in) : Collect(i)
    \/ Return
    \/ ExtractJoin
    \/ ExtractSequential
    \/ SelectLlm
    \/ StreamOpen
    \/ StreamChunk
    \/ StreamEnd
    \/ StreamFail
    \/ Synthesize
    \/ Coerce
    \/ Validate
    \/ Complete

\* runs on questions of every classification; five spaces pass the
\* min_length of AgentRequest.question
EnhanceQuestions ==
    {"mobile navigation", " ARIA menus ", "     ", "Browser Support", "show me examples "}

RunStartEnhance ==
    /\ RUNTIME_OPTIONS \in {<< >>, <<"GPT-5", TRUE>>}
    /\ env = AllKeysSet
    /\ request \in [question : EnhanceQuestions, max_results : {7}, include_images : {FALSE}]
    /\ parallel_fetch = TRUE
    /\ has_cb \in BOOLEAN
    /\ expected_analysis_chars = 20
    /\ search_index = "few"
    /\ llm_answers = FewAnswers
    /\ RunLocalsStart

(***************************************************************************)
(* Functions of their arguments alone, each as a program of its own        *)
(***************************************************************************)

CallIdle ==
    /\ call_args = <<>>
    /\ call_ret = None
    /\ call_pc = "idle"

\* all sequences over an alphabet up to a length
SeqsUpTo(alphabet, n) == UNION {[1..k -> alphabet] : k \in 0..n}

\* the longest text around the object
MaxProse == 2

\* texts of JSON objects
ObjectTexts ==
    { <<"{", "}">>,
      <<"{", "S", "}">>,
      <<"{", "S", ",", "B", "}">>,
      <<"{", " ", "S", ",", "\n", "\n", "B", "\n", "}">>,
      <<"{", "S", ",", "B", ",", "E", ",", "C", ",", "R", "}">> }

\* coerce_json_object on P + J + S: P any text without "{", S any text
\* without "}"
CoerceStart ==
    /\ call_args \in [P : SeqsUpTo({"x", " ", "\n", "}", ","}, MaxProse),
                      J : ObjectTexts,
                      S : SeqsUpTo({"x", " ", "\n", "{", ","}, MaxProse)]
    /\ call_ret = None
    /\ call_pc = "input"

ApplyCoerce ==
    /\ call_pc = "input"
    /\ call_ret' = coerce_json_object(call_args.P \o call_args.J \o call_args.S)
    /\ call_pc' = "done"
    /\ UNCHANGED <<call_args, rankVars, extractVars, runVars>>

NextCoerce == ApplyCoerce

\* how many words a question holds at most
MaxWords == 2

\* words with and without keywords in them, in both cases of letters
Words ==
    { <<"A", "R", "I", "A">>,
      <<"w", "c", "a", "g">>,
      <<"K", "e", "y", "b", "o", "a", "r", "d">>,
      <<"v", "a", "r", "i", "a", "b", "l", "e">>,
      <<"B", "r", "o", "w", "s", "e", "r", " ", "S", "u", "p", "p", "o", "r", "t">>,
      <<"s", "u", "p", "p", "o", "r", "t", "s">>,
      <<"p", "e", "r", "f", "o", "r", "m">>,
      <<"G", "a", "l", "l", "e", "r", "y">>,
      <<"S", "h", "o", "w", " ", "M", "e">>,
      <<"s", "h", "o", "w", "m", "e">>,
      <<"m", "e", "n", "u", "s">>,
      <<"s", "c", "r", "e", "e", "n", " ", " ", "r", "e", "a", "d", "e", "r">> }

\* the words joined by single spaces
RECURSIVE Joined(_)
Joined(ws) ==
    IF ws = <<>> THEN <<>>
    ELSE IF Len(ws) = 1 THEN ws[1]
    ELSE ws[1] \o <<" ">> \o Joined(Tail(ws))

Questions == {Joined(ws) : ws \in SeqsUpTo(Words, MaxWords)}

\* classify_query on a question
ClassifyStart ==
    /\ call_args \in [question : Questions]
    /\ call_ret = None
    /\ call_pc = "input"

ApplyClassify ==
    /\ call_pc = "input"
    /\ call_ret' = classify_query(call_args.question)
    /\ call_pc' = "done"
    /\ UNCHANGED <<call_args, rankVars, extractVars, runVars>>

NextClassify == ApplyClassify

\* what may stand before and after the words of a question
Paddings == {<<>>, <<" ">>, <<"\n", " ">>}

Classifications == {"pattern", "accessibility", "inspiration", "feasibility", "other"}

\* generate_search_variants on a question and a classification
VariantsStart ==
    /\ call_args \in [question : {l \o q \o r : l \in Paddings, q \in Questions, r \in Paddings},
                      classification : Classifications]
    /\ call_ret = None
    /\ call_pc = "input"

ApplyVariants ==
    /\ call_pc = "input"
    /\ call_ret' = generate_search_variants(call_args.question, call_args.classification)
    /\ call_pc' = "done"
    /\ UNCHANGED <<call_args, rankVars, extractVars, runVars>>

NextVariants == ApplyVariants

\* how many <img> elements a drawn page holds at most
MaxImgs == 2

\* the meta values of the drawn pages
MetaChoices ==
    { NoMeta,
      <<None, "https://x.com/hero.jpg", None, None, None, None>>,
      <<"https://x.com/logo.png", None, None, "https://x.com/big.png", None,
        "https://x.com/hero.jpg">>,
      <<None, "", None, None, "/img/hero.jpg", None>> }

\* the <img> elements of the drawn pages
ImgChoices ==
    { [src |-> "https://x.com/big.png", width |-> "800", height |-> "600"],
      [src |-> "https://x.com/big.png", width |-> "64", height |-> None],
      [src |-> "https://x.com/small.png", width |-> "150", height |-> None],
      [src |-> "https://cdn.example.com/photo.webp", width |-> None, height |-> "300"],
      [src |-> "https://x.com/hero.jpg", width |-> None, height |-> None],
      [src |-> "https://x.com/logo.png", width |-> "800", height |-> None],
      [src |-> "https://x.com/anim.gif", width |-> "800", height |-> "600"],
      [src |-> "", width |-> "800", height |-> None] }

\* eleven <img> elements, the last of them the largest
ElevenImgs ==
    [i \in 1..11 |->
        IF i = 11 THEN [src |-> "https://x.com/big.png", width |-> "800", height |-> "600"]
        ELSE [src |-> "https://x.com/small.png", width |-> "150", height |-> None]]

\* the selection of extract_primary_image on a parsed page
SelectStart ==
    /\ call_args \in [page_url : {"https://www.nngroup.com/a"},
                      page : [empty : {FALSE}, meta : MetaChoices,
                              imgs : SeqsUpTo(ImgChoices, MaxImgs) \cup {ElevenImgs}]]
    /\ call_ret = None
    /\ call_pc = "input"

ApplySelect ==
    /\ call_pc = "input"
    /\ call_ret' = SelectPrimary(call_args.page_url, call_args.page)
    /\ call_pc' = "done"
    /\ UNCHANGED <<call_args, rankVars, extractVars, runVars>>

NextSelect == ApplySelect

HtmlStatuses == {"200", "401", "403", "404", "429", "500", "timeout"}

\* the image of a page, by either variant, with what the two requests for
\* its HTML meet
ImageStart ==
    /\ call_args \in [page_url : WebUrls, direct : HtmlStatuses, proxy : HtmlStatuses]
    /\ call_ret = None
    /\ call_pc = "input"

ApplyImage ==
    /\ call_pc = "input"
    /\ call_ret' =
          [requests |-> HtmlRequests(call_args.direct, DirectPage(call_args.page_url)),
           primary |-> extract_primary_image(call_args.page_url, call_args.direct,
                           call_args.proxy, DirectPage(call_args.page_url),
                           ProxyPage(call_args.page_url)),
           debug |-> extract_primary_image_debug(call_args.page_url, call_args.direct,
                           call_args.proxy, DirectPage(call_args.page_url),
                           ProxyPage(call_args.page_url))]
    /\ call_pc' = "done"
    /\ UNCHANGED <<call_args, rankVars, extractVars, runVars>>

NextImage == ApplyImage

\* one evaluation: the provider argument, the value of EVALUATOR_LLM_PROVIDER
\* in the environment and what the request to the LLM meets
EvaluateStart ==
    /\ call_args \in [evaluator_provider : {None, "GPT-5", "Claude Sonnet 4.5", "Gemini"},
                      env_value : {None, "", "GPT-5", "Claude Sonnet 4.5", "gpt-5", "Gemini"},
                      status : {"200", "429", "500", "timeout"},
                      stream : BOOLEAN]
    /\ call_ret = None
    /\ call_pc = "input"

ApplyEvaluate ==
    /\ call_pc = "input"
    /\ ~ call_args.stream
    /\ call_ret' = evaluate_response(call_args.evaluator_provider, call_args.env_value,
                                     call_args.status)
    /\ call_pc' = "done"
    /\ UNCHANGED <<call_args, rankVars, extractVars, runVars>>

ApplyEvaluateStream ==
    /\ call_pc = "input"
    /\ call_args.stream
    /\ call_ret' = evaluate_response_stream(call_args.evaluator_provider, call_args.env_value,
                                            call_args.status)
    /\ call_pc' = "done"
    /\ UNCHANGED <<call_args, rankVars, extractVars, runVars>>

NextEvaluate ==
    \/ ApplyEvaluate
    \/ ApplyEvaluateStream

\* the image URLs scored
ScoredUrls ==
    { "https://x.com/hero.jpg", "https://x.com/HERO.JPG", "https://x.com/hero.jpg?w=800",
      "https://x.com/logo.png", "https://x.com/big.png", "https://cdn.example.com/photo.webp",
      "https://x.com/anim.gif", "https://developer.mozilla.org/shot.png" }

\* a dimension: unknown, or one of these numbers of pixels
Dimensions == {{}, {64}, {119}, {120}, {299}, {300}, {599}, {600}, {800}}

\* pages whose meta image is declared, by og:image:width and og:image:height,
\* to have the size og_size
SizedPages ==
    { [empty |-> FALSE,
       meta |-> <<None, "https://x.com/hero.jpg", None, None, None, None>>,
       imgs |-> << [src |-> "https://x.com/logo.png", width |-> "800", height |-> "600"] >>,
       og_size |-> <<"800", "600">>],
      [empty |-> FALSE,
       meta |-> <<None, "https://x.com/hero.jpg", None, None, None, None>>,
       imgs |-> << [src |-> "https://x.com/big.png", width |-> "800", height |-> "600"] >>,
       og_size |-> <<None, None>>],
      [empty |-> FALSE,
       meta |-> NoMeta,
       imgs |-> << [src |-> "https://x.com/logo.png", width |-> "800", height |-> None],
                   [src |-> "https://x.com/small.png", width |-> "150", height |-> None] >>,
       og_size |-> <<None, None>>] }

\* _score_candidate on a candidate, then the selection on a page
ScoreStart ==
    /\ call_args \in [url : ScoredUrls, from_meta : BOOLEAN,
                      dims : Dimensions \X Dimensions,
                      page_url : {"https://x.com/"}, page : SizedPages]
    /\ call_ret = None
    /\ call_pc = "input"

ApplyScore ==
    /\ call_pc = "input"
    /\ call_ret' = [score |-> _score_candidate(call_args.url, call_args.from_meta,
                                               call_args.dims),
                    primary |-> None]
    /\ call_pc' = "scored"
    /\ UNCHANGED <<call_args, rankVars, extractVars, runVars>>

ApplySelectOfSized ==
    /\ call_pc = "scored"
    /\ call_ret' = [call_ret EXCEPT !.primary = SelectPrimary(call_args.page_url, call_args.page)]
    /\ call_pc' = "done"
    /\ UNCHANGED <<call_args, rankVars, extractVars, runVars>>

NextScore ==
    \/ ApplyScore
    \/ ApplySelectOfSized

(***************************************************************************)
(* Specifications                                                          *)
(***************************************************************************)

InitRank ==
    /\ candidates \in CandidateLists
    /\ rank_out = <<>>
    /\ rank_pc = "input"
    /\ ExtractIdle
    /\ RunIdle
    /\ CallIdle

SpecRank == InitRank /\ [][NextRank]_vars

InitExtract ==
    /\ ExtractStart
    /\ RankIdle
    /\ RunIdle
    /\ CallIdle

SpecExtract == InitExtract /\ [][NextExtract]_vars

Init ==
    /\ RunStartWide
    /\ RankIdle
    /\ ExtractIdle
    /\ CallIdle

Next == NextRun

Spec == Init /\ [][Next]_vars

InitSynth ==
    /\ RunStartSynth
    /\ RankIdle
    /\ ExtractIdle
    /\ CallIdle

SpecSynth == InitSynth /\ [][Next]_vars

\* no other program of the module runs
OthersIdle ==
    /\ RankIdle
    /\ ExtractIdle
    /\ RunIdle

InitCoerce ==
    /\ CoerceStart
    /\ OthersIdle

SpecCoerce == InitCoerce /\ [][NextCoerce]_vars

InitClassify ==
    /\ ClassifyStart
    /\ OthersIdle

SpecClassify == InitClassify /\ [][NextClassify]_vars

InitVariants ==
    /\ VariantsStart
    /\ OthersIdle

SpecVariants == InitVariants /\ [][NextVariants]_vars

InitSelect ==
    /\ SelectStart
    /\ OthersIdle

SpecSelect == InitSelect /\ [][NextSelect]_vars

InitImage ==
    /\ ImageStart
    /\ OthersIdle

SpecImage == InitImage /\ [][NextImage]_vars

InitEvaluate ==
    /\ EvaluateStart
    /\ OthersIdle

SpecEvaluate == InitEvaluate /\ [][NextEvaluate]_vars

InitScore ==
    /\ ScoreStart
    /\ OthersIdle

SpecScore == InitScore /\ [][NextScore]_vars

InitOptions ==
    /\ RunStartOptions
    /\ RankIdle
    /\ ExtractIdle
    /\ CallIdle

SpecOptions == InitOptions /\ [][NextOptions]_vars

InitStages ==
    /\ RunStartStages
    /\ RankIdle
    /\ ExtractIdle
    /\ CallIdle

SpecStages == InitStages /\ [][NextStages]_vars

InitEnhance ==
    /\ RunStartEnhance
    /\ RankIdle
    /\ ExtractIdle
    /\ CallIdle

SpecEnhance == InitEnhance /\ [][Next]_vars

(***************************************************************************)
(* Properties                                                              *)
(***************************************************************************)

\* C3: the output of dedup_and_rank holds no two entries with the same URL
\* and is ordered by non-increasing score.
C3_UniqueAndSorted ==
    rank_pc = "done" =>
        /\ \A i, j \in 1..Len(rank_out) :
              i # j => rank_out[i].url # rank_out[j].url
        /\ \A i \in 1..(Len(rank_out) - 1) :
              rank_out[i].score >= rank_out[i + 1].score

\* a ranked input with a repeated URL and a lower score ahead of a higher one
C3_Witness ==
    /\ rank_pc = "done"
    /\ Len(candidates) = 3
    /\ candidates[1].url = "https://example.com/c"
    /\ candidates[2].url = "https://example.com/c"
    /\ candidates[3].url = "https://baymard.com/b"
    /\ Len(rank_out) = 2
    /\ rank_out[1].score = 25

\* one record per input result, in the ranked order
OneRecordPerResultInOrder ==
    /\ Len(x_ret) = Len(x_in)
    /\ \A i \in 1..Len(x_in) :
          /\ x_ret[i].url = x_in[i].url
          /\ x_ret[i].title = x_in[i].title

HasNoImage(rec) == rec.image_url = None /\ rec.image_source = "none"

\* the reader's text request for the page failed
TextFetchFailed(scenario, url) ==
    NetScenarios[scenario][url].text # "200"

\* the image lookup got no page to look at: every HTML request failed, or the
\* direct one raised
HtmlFetchFailed(scenario, url) ==
    LET net == NetScenarios[scenario][url]
    IN  net.direct # "200" /\ (net.direct \notin {"401", "403", "429", "timeout"} \/ net.proxy # "200")

\* C1 as stated: one record per input result in ranked order, and a result
\* whose (text) fetch failed has empty content and no image.
C1_AsStated ==
    x_pc = "returned" =>
        /\ OneRecordPerResultInOrder
        /\ \A i \in 1..Len(x_in) :
              TextFetchFailed(x_net, x_in[i].url) =>
                  x_ret[i].content = "" /\ HasNoImage(x_ret[i])

\* C1, amended: one record per input result in ranked order; a result whose
\* text fetch failed has empty content; a result whose image lookup got no
\* page has no image.
C1_OrderAndDegrade ==
    x_pc = "returned" =>
        /\ OneRecordPerResultInOrder
        /\ \A i \in 1..Len(x_in) :
              /\ TextFetchFailed(x_net, x_in[i].url) => x_ret[i].content = ""
              /\ HtmlFetchFailed(x_net, x_in[i].url) => HasNoImage(x_ret[i])

\* three results collected out of order, every request of the second failed,
\* the first with its image
C1_Witness ==
    /\ x_pc = "returned"
    /\ Len(x_in) = 3
    /\ x_extracted[1].url = x_in[3].url
    /\ x_extracted[3].url = x_in[1].url
    /\ x_images
    /\ TextFetchFailed(x_net, x_in[2].url)
    /\ HtmlFetchFailed(x_net, x_in[2].url)
    /\ x_ret[2].content = ""
    /\ x_ret[1].image_url # None

\* the run got past the ranking stage
HasRanked ==
    \/ run_pc \in {"extract", "select_llm", "stream_open", "stream", "synthesize", "coerce",
                   "validate", "enrich", "returned"}
    \/ run_pc = "failed" /\ error.stage \notin {"preflight", "search"}

\* C2 as stated: no failing call of the extraction stage aborts the run,
\* with parallel_fetch true or false.
C2_ExtractionNeverAborts ==
    ~ (run_pc = "failed" /\ error.stage = "extract")

\* the configuration the run reads
ConfiguredProvider == IF RUNTIME_OPTIONS = << >> THEN "GPT-5" ELSE RUNTIME_OPTIONS[1]
ConfiguredBrave == IF RUNTIME_OPTIONS = << >> THEN FALSE ELSE RUNTIME_OPTIONS[2]

\* the credential keys the configuration requires
CredentialKeys ==
    {"EXA_API_KEY"}
    \cup (IF ConfiguredProvider = "GPT-5" THEN {"OPENAI_API_KEY"} ELSE {})
    \cup (IF ConfiguredProvider = "Claude Sonnet 4.5" THEN {"ANTHROPIC_API_KEY"} ELSE {})
    \cup (IF ConfiguredBrave THEN {"BRAVE_API_KEY"} ELSE {})

\* the required keys that are absent or blank
MissingCredentials == {k \in CredentialKeys : env[k] \in {None, "", " "}}

\* C4: when a required credential key of the configured provider and
\* secondary-search flag is absent or blank, the run fails before any request
\* is sent, and its error names every missing key.
C4_MissingKeysFailFirst ==
    (/\ run_pc \notin {"idle", "start"}
     /\ ConfiguredProvider \in {"GPT-5", "Claude Sonnet 4.5"}
     /\ MissingCredentials # {})
    => /\ run_pc = "failed"
       /\ error.type = "ValueError"
       /\ error.stage = "preflight"
       /\ calls = << >>
       /\ Range(error.missing) = MissingCredentials

\* a run with three required keys absent or blank has failed, naming the three
C4_Witness ==
    /\ run_pc = "failed"
    /\ ConfiguredBrave
    /\ error.missing = <<"EXA_API_KEY", "OPENAI_API_KEY", "BRAVE_API_KEY">>
    /\ calls = << >>

\* the requests the run sent to the LLM backend, in order
LlmCalls == SelectSeq(calls, LAMBDA c : c.api = "llm")

\* C5 as stated: the LLM backend is invoked at most once within one run.
C5_AtMostOneLlmCall == Len(LlmCalls) <= 1

\* C5, amended: at most one streaming and at most one blocking request; the
\* blocking request follows a streaming one only when that one failed; a
\* failed blocking request is the last request of the run, which fails.
C5_NoRetry ==
    /\ Cardinality({i \in 1..Len(LlmCalls) : LlmCalls[i].arg = "synthesize_stream"}) <= 1
    /\ Cardinality({i \in 1..Len(LlmCalls) : LlmCalls[i].arg = "synthesize"}) <= 1
    /\ ~ has_cb => \A i \in 1..Len(LlmCalls) : LlmCalls[i].arg = "synthesize"
    /\ Len(LlmCalls) >= 2 =>
          /\ LlmCalls[1].arg = "synthesize_stream"
          /\ LlmCalls[1].status # "200"
    /\ \A i \in 1..Len(calls) :
          (calls[i].api = "llm" /\ calls[i].arg = "synthesize" /\ calls[i].status # "200")
          => /\ i = Len(calls)
             /\ run_pc = "failed"
             /\ error.stage = "synthesize"

\* the streaming request failed, the blocking request that followed failed
\* too, and the run has failed
C5_Witness ==
    /\ Len(LlmCalls) = 2
    /\ LlmCalls[1].arg = "synthesize_stream"
    /\ LlmCalls[2].arg = "synthesize"
    /\ LlmCalls[2].status = "timeout"
    /\ run_pc = "failed"

\* C6: a failed search request is the last request of the run, which has
\* failed with that error at the search stage: nothing was ranked, extracted
\* or synthesized.
C6_SearchFailureIsFatal ==
    \A i \in 1..Len(calls) :
        (calls[i].api \in {"exa", "brave"} /\ calls[i].status # "200")
        => /\ i = Len(calls)
           /\ run_pc = "failed"
           /\ error.stage = "search"
           /\ ranked = << >>
           /\ extracted = << >>
           /\ response = NoResponse

\* the secondary backend answered 429 after the primary had answered every
\* variant, and the run has failed
C6_Witness ==
    /\ run_pc = "failed"
    /\ Len(calls) >= 2
    /\ calls[1].api = "exa"
    /\ calls[Len(calls)].api = "brave"
    /\ calls[Len(calls)].status = "429"
    /\ results # << >>

\* the absolute URLs among those the answers of the model hold
AbsoluteUrls ==
    { "https://www.nngroup.com/a", "https://baymard.com/b", "https://blog.example.org/h",
      "https://lawsofux.com", "https://x.com/big.png" }

\* the JSON type of the member the coerced output holds for a key
TypeOfField(key) == MemberValue(data.value[key]).type
ItemsOfField(key) == MemberValue(data.value[key]).items

\* the coerced output has the shape of the response schema
Structured ==
    /\ data.kind = "dict"
    /\ \A key \in {"summary", "best_practices", "examples", "considerations", "sources"} :
          data.value[key] # None
    /\ TypeOfField("summary") = "str"
    /\ TypeOfField("best_practices") = "list"
    /\ TypeOfField("examples") = "list"
    /\ TypeOfField("considerations") = "dict"
    /\ TypeOfField("sources") = "list"
    /\ data.value["query_classification"] # None => TypeOfField("query_classification") = "str"
    /\ \A i \in 1..Len(ItemsOfField("examples")) :
          /\ ItemsOfField("examples")[i].url \in AbsoluteUrls
          /\ ItemsOfField("examples")[i].image_url \in AbsoluteUrls \cup {None}
    /\ \A i \in 1..Len(ItemsOfField("sources")) :
          ItemsOfField("sources")[i].url \in AbsoluteUrls

\* a "done" event was passed to the callback
DoneReported == \E i \in 1..Len(progress) : progress[i][1] = "done"

\* C7: a run returns only when the coerced output has the shape of the
\* schema, and the response is made of that output; when it has not, the run
\* has failed at validation with no response; "done" is reported by a run
\* that returned only.
C7_ReturnsOnlyValidated ==
    /\ run_pc = "returned" =>
          /\ Structured
          /\ response.best_practices = ItemsOfField("best_practices")
          /\ Len(response.examples) = Len(ItemsOfField("examples"))
          /\ \A i \in 1..Len(response.examples) :
                response.examples[i].url = ItemsOfField("examples")[i].url
          /\ response.sources = ItemsOfField("sources")
    /\ (data.kind # None /\ run_pc # "validate" /\ ~ Structured) =>
          /\ run_pc = "failed"
          /\ error.stage = "validate"
          /\ response = NoResponse
    /\ DoneReported => run_pc = "returned"

\* a run whose output lacked the summary has failed at validation
C7_Witness ==
    /\ run_pc = "failed"
    /\ error.type = "ValidationError"
    /\ data.kind = "dict"
    /\ data.value["summary"] = None
    /\ has_cb

\* C8 as stated, its first part: the parse error of a failed run includes
\* the raw text of the model.
C8_ParseErrorCarriesRawText ==
    (run_pc = "failed" /\ error.type = "JSONDecodeError") =>
        Contains(error.doc, raw)

\* C9 as stated: the ranked list is never longer than max_results.
C9_RankedWithinMaxResults ==
    Len(ranked) <= request.max_results

\* the window the environment configures
ConfiguredMin == IF env["MIN_RANKED_RESULTS"] = "2" THEN 2 ELSE 6
ConfiguredMax == IF env["MAX_RANKED_RESULTS"] = "3" THEN 3 ELSE 8
WindowLength ==
    IF ConfiguredMax <= request.max_results
    THEN (IF ConfiguredMax >= ConfiguredMin THEN ConfiguredMax ELSE ConfiguredMin)
    ELSE (IF request.max_results >= ConfiguredMin THEN request.max_results ELSE ConfiguredMin)

\* C10: the ranked list is the prefix of dedup_and_rank's output that has
\* max(MIN, min(MAX, max_results)) entries, or all of it when it is shorter;
\* with the default window it has at most 8 entries.
C10_RankedIsWindowPrefix ==
    HasRanked =>
        LET ranked_all == dedup_and_rank(results)
        IN  /\ Len(ranked) <= Len(ranked_all)
            /\ ranked = SubSeq(ranked_all, 1, Len(ranked))
            /\ Len(ranked) <= WindowLength
            /\ Len(ranked) < WindowLength => ranked = ranked_all
            /\ (env["MIN_RANKED_RESULTS"] = None /\ env["MAX_RANKED_RESULTS"] = None)
                  => Len(ranked) <= 8

\* a request for 20 results against ten distinct URLs under the default
\* window keeps the first 8
C10_Witness ==
    /\ HasRanked
    /\ request.max_results = 20
    /\ env["MAX_RANKED_RESULTS"] = None
    /\ Len(dedup_and_rank(results)) = 10
    /\ Len(ranked) = 8


(***************************************************************************)
(* The prompt                                                              *)
(***************************************************************************)

\* the prompt has been built
PromptBuilt == run_pc \in {"stream_open", "synthesize", "stream", "coerce", "validate",
                           "enrich", "returned"}

\* C11: in the prompt build_prompt produced, the excerpt of every extracted
\* source is at most PROMPT_EXCERPT_MAX_CHARS characters long (1200 unless
\* the environment sets it).
C11_ExcerptsWithinCap ==
    PromptBuilt =>
        \A i \in 1..Len(prompt) :
            Len(prompt[i].content) <= get_prompt_excerpt_max_chars(env)

(***************************************************************************)
(* The fallback from the streaming call                                    *)
(***************************************************************************)

\* the positions of the log at which a streaming call raised
FailedStreams ==
    {i \in 1..Len(calls) : calls[i].arg = "synthesize_stream" /\ calls[i].status # "200"}

\* C12: when the streaming call raised, before or after fragments arrived,
\* the blocking call is made once right after it, the text handed to
\* coerce_json_object is one whole answer of the blocking call with nothing
\* of the fragments in front of it, and the run fails at the synthesis only
\* if the blocking call itself failed.
C12_FallbackReplacesFragments ==
    \A i \in FailedStreams :
        /\ has_cb
        /\ i < Len(calls)
        /\ calls[i + 1].api = "llm" /\ calls[i + 1].arg = "synthesize"
        /\ calls[i + 1].status = "200" =>
              /\ run_pc \in {"coerce", "validate", "enrich", "returned", "failed"}
              /\ raw \in llm_answers
              /\ error.stage # "synthesize"
        /\ calls[i + 1].status # "200" => run_pc = "failed" /\ error.stage = "synthesize"

\* the stream raised after more characters had arrived than the blocking
\* call then returned
C12_Witness ==
    /\ FailedStreams # {}
    /\ run_pc = "coerce"
    /\ accumulated > Len(raw)
    /\ raw # <<>>

(***************************************************************************)
(* coerce_json_object                                                      *)
(***************************************************************************)

\* the members of an object text, whitespace apart
MembersOf(J) == SelectSeq(J, LAMBDA c : c \notin {"{", "}", ",", " ", "\n"})

\* C13: for raw = P + J + S, J the text of a JSON object, P without "{" and S
\* without "}", coerce_json_object(raw) returns the object parsed from J.
C13_ProseAroundObject ==
    call_pc = "done" =>
        /\ call_ret.kind = "dict"
        /\ call_ret.value = DictOf(MembersOf(call_args.J), 1, EmptyDict)

\* prose on both sides of an object with members, one with the other brace
C13_Witness ==
    /\ call_pc = "done"
    /\ call_args.P = <<"x", "}">>
    /\ call_args.S = <<"{", "x">>
    /\ Len(call_args.J) > 3
    /\ call_ret.kind = "dict"
    /\ call_ret.value.summary = "S"

(***************************************************************************)
(* classify_query and generate_search_variants                             *)
(***************************************************************************)

\* text occurs in cs, the case of letters apart
Occurs(text, cs) ==
    \E i \in 1..(Len(cs) - Len(text) + 1) :
        \A j \in 1..Len(text) : LowerChar(cs[i + j - 1]) = LowerChar(text[j])

\* some keyword of the list occurs in the question
Mentions(question, keywords) ==
    \E i \in 1..Len(keywords) : Occurs(Chars(keywords[i]), question)

\* C15: classify_query returns the first of accessibility, feasibility and
\* inspiration whose keyword list has a member occurring in the question,
\* the case of letters apart, and "pattern" when none has.
C15_FirstMatchingCategory ==
    call_pc = "done" =>
        call_ret =
            IF Mentions(call_args.question, ACCESSIBILITY_KEYWORDS) THEN "accessibility"
            ELSE IF Mentions(call_args.question, FEASIBILITY_KEYWORDS) THEN "feasibility"
            ELSE IF Mentions(call_args.question, INSPIRATION_KEYWORDS) THEN "inspiration"
            ELSE "pattern"

\* a question with a feasibility keyword before an accessibility keyword in
\* capitals
C15_Witness ==
    /\ call_pc = "done"
    /\ call_args.question = <<"s", "u", "p", "p", "o", "r", "t", "s", " ", "A", "R", "I", "A">>
    /\ call_ret = "accessibility"

\* the question without the whitespace at its ends
Trimmed(cs) ==
    IF \A i \in 1..Len(cs) : cs[i] \in {" ", "\n"} THEN <<>>
    ELSE SubSeq(cs,
                CHOOSE i \in 1..Len(cs) :
                    cs[i] \notin {" ", "\n"} /\ \A j \in 1..(i - 1) : cs[j] \in {" ", "\n"},
                CHOOSE i \in 1..Len(cs) :
                    cs[i] \notin {" ", "\n"} /\ \A j \in (i + 1)..Len(cs) : cs[j] \in {" ", "\n"})

\* C16: generate_search_variants returns at most 6 strings, none of them
\* twice, the first of which is the question without the whitespace at its
\* ends.
C16_VariantsBounded ==
    call_pc = "done" =>
        /\ Len(call_ret) >= 1
        /\ Len(call_ret) <= 6
        /\ \A i, j \in 1..Len(call_ret) : call_ret[i] = call_ret[j] => i = j
        /\ call_ret[1] = Trimmed(call_args.question)

\* a question with whitespace at both ends and its four variants
C16_Witness ==
    /\ call_pc = "done"
    /\ call_args.question = <<" ", "A", "R", "I", "A", "\n", " ">>
    /\ call_args.classification = "accessibility"
    /\ Len(call_ret) = 4
    /\ call_ret[1] = <<"A", "R", "I", "A">>

(***************************************************************************)
(* The back-fill of the example images                                     *)
(***************************************************************************)

\* the examples as the answer of the LLM gave them
GivenExamples == MemberValue(data.value["examples"]).items

\* the extracted records with the given url that hold an image
RecordsWithImage(url) ==
    {j \in 1..Len(extracted) :
        extracted[j].url = url /\ extracted[j].image_url \notin {None, ""}}

\* C14: in the returned response, every example that came without an image
\* and whose URL equals the URL of an extracted record with an image holds
\* that record's image.
C14_BackfillByExactUrl ==
    run_pc = "returned" =>
        \A i \in 1..Len(response.examples) :
            (GivenExamples[i].image_url = None /\ RecordsWithImage(GivenExamples[i].url) # {}) =>
                \E j \in RecordsWithImage(GivenExamples[i].url) :
                    response.examples[i].image_url = extracted[j].image_url

(***************************************************************************)
(* The search stage                                                        *)
(***************************************************************************)

\* the search stage ran to its end
SearchCompleted ==
    /\ run_pc \notin {"idle", "start", "search_exa", "search_brave"}
    /\ error.stage \notin {"preflight", "search"}

\* how many requests for a query the log holds for a backend
TimesSent(backend, query) ==
    Cardinality({i \in 1..Len(calls) : calls[i].api = backend /\ calls[i].arg = query})

\* the result lists of the logged search requests, one after the other
RECURSIVE GotOf(_)
GotOf(log) ==
    IF log = <<>> THEN <<>>
    ELSE IF Head(log).api \in {"exa", "brave"} THEN Head(log).got \o GotOf(Tail(log))
    ELSE GotOf(Tail(log))

\* C17: once the search stage has run to its end, every variant was sent
\* once to Exa, and once to Brave if Brave is enabled and never if it is
\* not, no other query was sent, and the list handed to the ranking is the
\* concatenation of the results of these requests in their order.
C17_EveryVariantSearchedOnce ==
    SearchCompleted =>
        /\ \A v \in 1..Len(variants) :
              /\ TimesSent("exa", variants[v]) = 1
              /\ TimesSent("brave", variants[v]) = IF ConfiguredBrave THEN 1 ELSE 0
        /\ \A i \in 1..Len(calls) :
              calls[i].api \in {"exa", "brave"} =>
                  \E v \in 1..Len(variants) : calls[i].arg = variants[v]
        /\ results = GotOf(calls)

\* Brave is enabled and both backends returned results for the four variants
C17_Witness ==
    /\ SearchCompleted
    /\ ConfiguredBrave
    /\ Len(variants) = 4
    /\ \E i \in 1..Len(calls) : calls[i].api = "brave" /\ calls[i].got # <<>>
    /\ \E i \in 1..Len(calls) : calls[i].api = "exa" /\ calls[i].got # <<>>
    /\ Len(results) > 4

(***************************************************************************)
(* The selection of the primary image                                      *)
(***************************************************************************)

\* the meta values that are set, in their order, then those of the first ten
\* <img> elements that have a src, each with its absolute URL
Collected(page_url, page) ==
    LET metas == SelectSeq(page.meta, LAMBDA m : m \notin {None, ""})
        imgs == SelectSeq(SubSeq(page.imgs, 1, IF Len(page.imgs) < 10 THEN Len(page.imgs) ELSE 10),
                          LAMBDA g : g.src \notin {None, ""})
    IN  [i \in 1..(Len(metas) + Len(imgs)) |->
            IF i <= Len(metas)
            THEN [url |-> _absolutize(page_url, metas[i]), from_meta |-> TRUE,
                  dims |-> <<{}, {}>>]
            ELSE [url |-> _absolutize(page_url, imgs[i - Len(metas)].src), from_meta |-> FALSE,
                  dims |-> <<_parse_int(imgs[i - Len(metas)].width),
                             _parse_int(imgs[i - Len(metas)].height)>>]]

\* ret is the earliest of the candidates with the highest score, or no image
\* when no score is 1 or more
IsEarliestBest(ret, cands, scores) ==
    /\ ret.kind = "ok"
    /\ (ret.image_url = None) <=> (\A i \in 1..Len(cands) : scores[i] < 1)
    /\ (\E i \in 1..Len(cands) : scores[i] >= 1) =>
          \E k \in 1..Len(cands) :
              /\ scores[k] >= 1
              /\ ret.image_url = cands[k].url
              /\ \A i \in 1..Len(cands) : scores[i] <= scores[k]
              /\ \A i \in 1..(k - 1) : scores[i] < scores[k]

IsEarliestBestOf(ret, cands) ==
    IsEarliestBest(ret, cands,
        [i \in 1..Len(cands) |->
            _score_candidate(cands[i].url, cands[i].from_meta, cands[i].dims)])

Denied == {"401", "403", "429", "timeout"}

\* C19: the HTML proxy is requested at most once for a page, and only after
\* the direct request failed with 401, 403 or 429 or a network error; when
\* the proxy request fails too the result is no image, not an exception.
C19_ProxyOnlyAfterDenial ==
    call_pc = "done" =>
        /\ Cardinality({i \in 1..Len(call_ret.requests) : call_ret.requests[i] = "proxy"}) <= 1
        /\ (\E i \in 1..Len(call_ret.requests) : call_ret.requests[i] = "proxy") =>
              /\ call_args.direct \in Denied
              /\ call_ret.requests = <<"direct", "proxy">>
        /\ (call_args.direct \in Denied /\ call_args.proxy # "200") =>
              /\ call_ret.primary = [kind |-> "ok", image_url |-> None]
              /\ call_ret.debug.kind = "ok"
              /\ call_ret.debug.image_url = None
              /\ call_ret.debug.source = "none"

\* the direct request was throttled and the proxy failed
C19_Witness ==
    /\ call_pc = "done"
    /\ call_args.direct = "429"
    /\ call_args.proxy = "500"
    /\ call_args.page_url = "https://www.nngroup.com/a"
    /\ call_ret.requests = <<"direct", "proxy">>
    /\ call_ret.primary.image_url = None

(***************************************************************************)
(* The numbers of items of the answer                                      *)
(***************************************************************************)

\* the numbers of best practices and of examples the coerced output holds
\* are not both in the ranges the prompt asks for
CountsOutOfRange ==
    \/ Len(ItemsOfField("best_practices")) < 5
    \/ Len(ItemsOfField("best_practices")) > 10
    \/ Len(ItemsOfField("examples")) < 3
    \/ Len(ItemsOfField("examples")) > 6

\* C20: an output that has the shape of the schema passes the validation
\* whatever the numbers of its best practices and examples, and the run
\* returns it with these numbers of items.
C20_CountsNotEnforced ==
    (Structured /\ CountsOutOfRange) =>
        /\ error.stage # "validate"
        /\ run_pc \in {"validate", "enrich", "returned"}
        /\ run_pc = "returned" =>
              /\ Len(response.best_practices) = Len(ItemsOfField("best_practices"))
              /\ Len(response.examples) = Len(ItemsOfField("examples"))

\* a run returned a response with two best practices and no example
C20_Witness ==
    /\ run_pc = "returned"
    /\ Len(response.best_practices) = 2
    /\ response.examples = <<>>
    /\ response.sources # <<>>

(***************************************************************************)
(* The provider of the evaluator                                           *)
(***************************************************************************)

\* C21: called without a provider, evaluate_response and
\* evaluate_response_stream evaluate with the provider EVALUATOR_LLM_PROVIDER
\* names, "GPT-5" when it is unset, and do not reject it as invalid.
C21_DefaultProviderEvaluates ==
    (call_pc = "done" /\ call_args.evaluator_provider = None) =>
        /\ call_args.env_value = None =>
              call_ret.kind # "ValueError" /\ call_ret.provider = "GPT-5"
        /\ call_args.env_value \in {"GPT-5", "Claude Sonnet 4.5"} =>
              call_ret.kind # "ValueError" /\ call_ret.provider = call_args.env_value

(***************************************************************************)
(* dedup_and_rank: which record is kept, and the order of equal scores     *)
(***************************************************************************)

\* the position of the first candidate with the url
FirstAt(url) ==
    CHOOSE i \in 1..Len(candidates) :
        candidates[i].url = url /\ \A j \in 1..(i - 1) : candidates[j].url # url

\* C22: dedup_and_rank keeps for each URL, compared as the string received,
\* the record of its first occurrence and drops the later ones, and records
\* with equal scores keep the order of their first occurrences.
C22_FirstOccurrenceStable ==
    rank_pc = "done" =>
        /\ {rank_out[k].url : k \in 1..Len(rank_out)}
              = {candidates[i].url : i \in 1..Len(candidates)} \ {None, ""}
        /\ \A k, l \in 1..Len(rank_out) : rank_out[k].url = rank_out[l].url => k = l
        /\ \A k \in 1..Len(rank_out) :
              rank_out[k].title = candidates[FirstAt(rank_out[k].url)].title
        /\ \A k, l \in 1..Len(rank_out) :
              (k < l /\ rank_out[k].score = rank_out[l].score) =>
                  FirstAt(rank_out[k].url) < FirstAt(rank_out[l].url)

\* two URLs that differ in the case of a letter and a repetition of the
\* first under another title
C22_Witness ==
    /\ rank_pc = "done"
    /\ Len(candidates) = 3
    /\ candidates[1] = [title |-> "t1", url |-> "https://W3.org/e"]
    /\ candidates[2] = [title |-> "t2", url |-> "https://w3.org/e"]
    /\ candidates[3] = [title |-> "t2", url |-> "https://W3.org/e"]
    /\ Len(rank_out) = 2
    /\ rank_out[1].title = "t1"
    /\ rank_out[2].url = "https://w3.org/e"

\* the host of a url: what stands between "//" and the first ":", "/", "?"
\* or "#" behind it, in lower case
HostOf(url) ==
    LET rest == AfterFirst(Chars(url), <<"/", "/">>)
        ends == {i \in 1..Len(rest) : rest[i] \in {":", "/", "?", "#"}}
    IN  Lower(IF ends = {} THEN rest
              ELSE SubSeq(rest, 1, (CHOOSE i \in ends : \A j \in ends : i <= j) - 1))

\* the weights of the table domains the host ends with
WeightsOf(host) ==
    {AUTHORITY_DOMAINS[i].weight : i \in {j \in 1..Len(AUTHORITY_DOMAINS) :
        EndsWith(host, Chars(AUTHORITY_DOMAINS[j].dom))}}

\* C23: every result of dedup_and_rank carries the highest weight among the
\* table domains that are a suffix of the host of its URL, and 0 when none
\* is; nothing of the URL outside its host bears on the score.
C23_ScoreIsHostAuthority ==
    rank_pc = "done" =>
        \A k \in 1..Len(rank_out) :
            /\ rank_out[k].score \in WeightsOf(HostOf(rank_out[k].url)) \cup {0}
            /\ \A w \in WeightsOf(HostOf(rank_out[k].url)) : w <= rank_out[k].score

(***************************************************************************)
(* The score of an image candidate                                         *)
(***************************************************************************)

\* cs ends with text, the case of letters apart
EndsIn(cs, text) ==
    /\ Len(text) <= Len(cs)
    /\ \A j \in 1..Len(text) : LowerChar(cs[Len(cs) - Len(text) + j]) = LowerChar(text[j])

\* the candidate is on a skipped domain, names a blocklisted word or has no
\* allowed extension
Rejected(url) ==
    \/ \E d \in {"developer.mozilla.org", "w3.org", "web.dev"} : EndsIn(HostOf(url), Chars(d))
    \/ \E w \in {"logo", "favicon", "sprite", "icon", "avatar", "badge", "masthead",
                   "placeholder"} : Occurs(Chars(w), Chars(url))
    \/ ~ \E e \in {".jpg", ".jpeg", ".png", ".webp"} : EndsIn(Chars(url), Chars(e))

\* the bonus for the larger of the declared dimensions
SizeBonus(dims) ==
    IF \E d \in dims[1] \cup dims[2] : d >= 600 THEN 3
    ELSE IF \E d \in dims[1] \cup dims[2] : d >= 300 THEN 2
    ELSE IF \E d \in dims[1] \cup dims[2] : d >= 120 THEN 1
    ELSE 0

\* the score the claim gives a candidate
StatedScore(url, from_meta, dims) ==
    IF Rejected(url) THEN 0 - 10
    ELSE (IF from_meta THEN 3 ELSE 0) + SizeBonus(dims)

\* the page names hero.jpg in a meta value
HeroInMeta == \E i \in 1..6 : call_args.page.meta[i] = "https://x.com/hero.jpg"

PreflightPassed == run_pc \notin {"start", "idle"} /\ ~(run_pc = "failed" /\ error.stage = "preflight")

\* C25: the provider is resolved once per run: whenever set_runtime_options
\* is called during a run, the client of the synthesis is built for the
\* provider the pre-flight check validated, and no missing-key or
\* unsupported-provider error is raised after the pre-flight check passed.
C25_ProviderResolvedOnce ==
    PreflightPassed =>
        /\ ~(run_pc = "failed" /\ error.type = "ValueError" /\ error.stage = "select_llm")
        /\ llm \in {None, llm_provider}

\* the tasks of the call that have been started
Started == {i \in 1..Len(x_in) : x_task[i] \in {"running", "done", "collected"}}

\* how many records of the list carry the url
RecordsOf(list, url) == Cardinality({k \in 1..Len(list) : list[k].url = url})

\* the record of a task whose text request failed
FailedRecords == {k \in 1..Len(x_ret) : x_ret[k].content = ""}

\* C26: during extract_content_parallel at most max_workers tasks are in
\* progress at any moment, no task is started a second time, and when the
\* call returns every submitted URL's task has run and left its record,
\* whatever happened to the requests of the other tasks.
C26_BoundedPoolEachTaskOnce ==
    /\ [](x_pc # "idle" => Cardinality({i \in 1..Len(x_in) : x_task[i] = "running"}) <= x_workers)
    /\ [][\A i \in 1..Len(x_in) :
             /\ i \in Started => x_task'[i] # "queued"
             /\ x_task[i] \in {"done", "collected"} => x_task'[i] # "running"]_vars
    /\ [](x_pc = "returned" =>
             /\ \A i \in 1..Len(x_in) : x_task[i] = "collected"
             /\ Len(x_ret) = Len(x_in)
             /\ \A i \in 1..Len(x_in) : RecordsOf(x_ret, x_in[i].url) = 1)

\* a call with more URLs than workers returned, one task's fetch having failed
C26_Witness ==
    /\ x_pc = "returned"
    /\ x_workers < Len(x_in)
    /\ FailedRecords # {}
    /\ Cardinality(FailedRecords) < Len(x_ret)

\* the stage a position of run belongs to: expand, search, rank, extract,
\* synthesize, validate, and the end of the run
StageOf(pc) ==
    CASE pc \in {"idle", "start"} -> 1
      [] pc \in {"search_exa", "search_brave"} -> 2
      [] pc = "rank" -> 3
      [] pc \in {"extract", "extracting"} -> 4
      [] pc \in {"select_llm", "stream_open", "stream", "synthesize"} -> 5
      [] pc \in {"coerce", "validate", "enrich"} -> 6
      [] OTHER -> 7

\* the stage that sends requests to the service
StageOfApi(api) ==
    CASE api \in {"exa", "brave"} -> 2
      [] api = "jina" -> 4
      [] OTHER -> 5

\* a request was sent to the LLM
LlmInvoked == \E k \in 1..Len(calls) : calls[k].api = "llm"

\* the worker tasks of the extraction that have not completed
Incomplete == {i \in 1..Len(x_in) : x_task[i] \notin {"done", "collected"}}

\* C27: a run goes through expand, search, rank, extract, synthesize and
\* validate in that order, skipping none; its requests are sent in the order
\* of their stages; and from the moment the prompt is built no worker task of
\* the extraction is incomplete, the call of the pool having returned with a
\* record of every task.
C27_StagesInOrder ==
    /\ [][\/ StageOf(run_pc') = StageOf(run_pc)
          \/ StageOf(run_pc') = StageOf(run_pc) + 1
          \/ run_pc' = "failed"]_vars
    /\ [](\A j \in 1..Len(calls) : \A k \in j..Len(calls) :
             StageOfApi(calls[j].api) <= StageOfApi(calls[k].api))
    /\ [](LlmInvoked => StageOf(run_pc) >= 5)
    /\ []((StageOf(run_pc) \in {5, 6} \/ llm # None \/ LlmInvoked) =>
             /\ Incomplete = {}
             /\ x_pc \in {"idle", "returned"}
             /\ parallel_fetch => /\ x_pc = "returned"
                                  /\ Len(extracted) = Len(x_in)
                                  /\ Len(x_in) = Min(Len(ranked), get_extract_top_k))

\* a run with Brave and a pool of three tasks returned after its LLM request
C27_Witness ==
    /\ run_pc = "returned"
    /\ parallel_fetch
    /\ Len(x_in) = 3
    /\ x_extracted # x_ret
    /\ LlmInvoked
    /\ \E k \in 1..Len(calls) : calls[k].api = "brave"
    /\ \E k \in 1..Len(calls) : calls[k].api = "jina"

\* C28: for every page and whatever the requests for its HTML meet,
\* extract_primary_image_debug returns the image URL extract_primary_image
\* returns, None included.
C28_DebugSelectsSameImage ==
    (call_pc = "done" /\ "debug" \in DOMAIN call_ret /\ call_ret.primary.kind = "ok") =>
        /\ call_ret.debug.kind = "ok"
        /\ call_ret.debug.image_url = call_ret.primary.image_url

\* the events a run passes to its callback before the streaming starts
FixedEvents == << <<"search", 50>>, <<"extract", 330>>, <<"analysis", 660>>, <<"analysis", 700>> >>

\* the positions of the ("done", 1.0) event
DoneEvents == {k \in 1..Len(progress) : progress[k] = <<"done", 1000>>}

\* the blocking call was sent after the streaming call failed
FellBack ==
    \E j \in 1..Len(calls) : \E k \in (j + 1)..Len(calls) :
        /\ calls[j].api = "llm" /\ calls[j].arg = "synthesize_stream"
        /\ calls[k].api = "llm" /\ calls[k].arg = "synthesize"

Expanded == run_pc \notin {"idle", "start"} /\ error.stage # "preflight"

\* how many requests the log holds for a backend
CallsTo(backend) == Cardinality({i \in 1..Len(calls) : calls[i].api = backend})

\* the run has ended
RunEnded == run_pc \in {"returned", "failed"}

\* C30, as stated: every run issues exactly 4 search calls per enabled backend
C30_AsStated ==
    RunEnded =>
        /\ CallsTo("exa") = 4
        /\ CallsTo("brave") = IF enable_brave THEN 4 ELSE 0

\* C30: enhance returns exactly 4 pairwise distinct variants, the trimmed
\* question followed by the 3 templates of its classification in their
\* order, and a run whose search stage completes issues exactly 4 search
\* calls per enabled backend.
C30_FourVariantsFourCalls ==
    /\ Expanded =>
          /\ Len(variants) = 4
          /\ \A i, j \in 1..Len(variants) : variants[i] = variants[j] => i = j
          /\ Chars(variants[1]) = Trimmed(Chars(request.question))
          /\ \A i \in 1..3 :
                Chars(variants[i + 1])
                    = Chars(Templates(classification)[i]) \o Trimmed(Chars(request.question))
    /\ SearchCompleted =>
          /\ CallsTo("exa") = 4
          /\ CallsTo("brave") = IF enable_brave THEN 4 ELSE 0

\* a run with Brave on a question that is itself a keyword got through its
\* search stage
C30_Witness ==
    /\ SearchCompleted
    /\ enable_brave
    /\ request.question = "Browser Support"
    /\ classification = "feasibility"
    /\ variants[2] = "browser support Browser Support"
    /\ CallsTo("brave") = 4

=============================================================================
